---- MODULE Spec2Model ----
(***************************************************************************)
(* A model of the two pipelines of the repository.                         *)
(*                                                                         *)
(*  - deepsearch: the LangGraph research workflow (plan, research,         *)
(*    reflect, verify, write), the command-line driver that streams it,    *)
(*    polls the interrupt flag and saves every event, and the SQLite       *)
(*    store with its save/load conversion.                                 *)
(*  - deep_thinking: the session driver that walks each thinking task      *)
(*    through its phases, the engine's phase operations and the            *)
(*    file-based session record.                                           *)
(*                                                                         *)
(* Python's None is the record None, a NULL column is the record Null; a   *)
(* dictionary key that is absent is read through .get(key, default) in     *)
(* every place of the source, so it is modelled by its default.            *)
(***************************************************************************)
EXTENDS Integers, Sequences, FiniteSets, TLC

\* ------------------------------------------------------------------ bounds

\* The largest iteration budget (max_iterations) a job is created with.
MaxIter == 2
\* The largest iteration budget of a job that is followed through its passes
\* without interrupts or failures.
MaxBudget == 3
\* The largest number of questions the planner returns.
MaxPlan == 3
\* The largest number of questions the reflector appends over one job.
MaxNew == 1
\* How many times a paused job is handed to the workflow again.
MaxReinvoke == 1
\* The longest list of findings VerifierAgent.verify is called with.
MaxFindings == 4
\* The depth of calls at which Python raises RecursionError (1000 in
\* CPython; any depth above the number of questions does for the model).
RecursionLimit == MaxPlan + 3
\* The largest number of thinking tasks a goal is decomposed into.
MaxTasks == 1
\* How many times the process is ended inside run_phase_e.
MaxKills == 1
\* The number of tasks of a session that starts out decomposed.
MaxQueue == 2

\* ------------------------------------------------------------ small values

None == [none |-> TRUE]
Null == [null |-> TRUE]

Min(a, b) == IF a < b THEN a ELSE b

Range(s) == {s[i] : i \in 1..Len(s)}

Max(a, b) == IF a >= b THEN a ELSE b

\* The order of category names as strings: "background" < "general" < "technical".
CategoryRank(category) ==
    CASE category = "background" -> 1
      [] category = "general" -> 2
      [] OTHER -> 3

\* An answer that json.loads refuses.
Malformed == [malformed |-> TRUE]

\* An exception that leaves the call.
Raised == [raised |-> TRUE]

\* Model(**item): pydantic accepts the item when its required fields are there.
Validates(item, required) == required \subseteq DOMAIN item

\* int(text) is a number: what pydantic accepts for an integer field.
IsInteger(text) == text \in {"1", "2", "3", "4", "5"}

\* ------------------------------------------------- deepsearch: the inputs

\* Question ids in the order the planner's result lists them.
IdSeq == <<"A", "B", "C", "D", "E">>

\* The dependency lists a question may carry: none, one question, two
\* questions. With the ids of IdSeq they give a dependency on earlier
\* questions (C on A and B), on a later one (A on B), on the question itself
\* (B on B) and on a question the plan does not hold (A on B in a plan of one).
DepSets == {{}, {"B"}, {"A", "B"}}

\* ResearchQuestion: its id, its text (written as the id it is about) and its
\* dependencies.
ResearchQuestion(id, deps) == [id |-> id, question |-> id, dependencies |-> deps]

\* What PlannerAgent.plan can return: no question (the model answered with
\* an empty list), or up to MaxPlan questions with pairwise different ids
\* (_sort_questions keeps one question per id), in any order of their
\* dependencies (the final sort is by category, order and priority), with
\* dependencies that may be unmet, absent from the plan or circular.
PlannerPlans ==
    UNION {
        { [i \in 1..n |-> ResearchQuestion(IdSeq[i], d[i])] : d \in [1..n -> DepSets] }
        : n \in 0..MaxPlan }

\* The question of the planner's fallback plan: it asks for the topic itself.
FallbackQuestion ==
    [ ResearchQuestion("q_timestamp", {}) EXCEPT !.question = "What is topic?" ]

\* What the model answers to the planning prompt: text that is no JSON; JSON
\* whose question lacks the key `question`; JSON whose question has a priority
\* that is no number; or well-formed questions.
PlannerResponses ==
    { Malformed,
      [questions |-> <<[id |-> "A"]>>],
      [questions |-> <<[id |-> "A", question |-> "A", priority |-> "high"]>>] }
    \cup { [questions |->
               [i \in 1..Len(p) |->
                   [id |-> p[i].id, question |-> p[i].question,
                    dependencies |-> p[i].dependencies]]] : p \in PlannerPlans }

\* A listed question from which plan builds no ResearchQuestion: the key
\* `question` is absent, or the priority is no number.
BadQuestion(item) ==
    \/ "question" \notin DOMAIN item
    \/ ("priority" \in DOMAIN item /\ ~IsInteger(item.priority))

\* How an answer to the planning prompt parses.
PlannerKind(response) ==
    IF response = Malformed THEN "invalid_json"
    ELSE IF \E i \in 1..Len(response.questions) : BadQuestion(response.questions[i])
         THEN "wrong_shape"
         ELSE "parsed"

\* PlannerAgent.plan: the questions built from the answer, in the order the
\* final sort leaves them. Text that is no JSON (JSONDecodeError) and a
\* question without the key `question` (KeyError) give the fallback plan; a
\* question ResearchQuestion refuses raises a ValidationError, which the
\* except clause does not name (written <<Raised>>, in the place of the list).
\* The first question at fault decides.
plan(response) ==
    IF response = Malformed THEN <<FallbackQuestion>>
    ELSE LET raw == response.questions
             Bad(i) == BadQuestion(raw[i])
         IN  IF \E i \in 1..Len(raw) : Bad(i)
             THEN LET first == CHOOSE i \in 1..Len(raw) :
                                   Bad(i) /\ \A k \in 1..(i - 1) : ~Bad(k)
                  IN  IF "question" \notin DOMAIN raw[first]
                      THEN <<FallbackQuestion>>
                      ELSE <<Raised>>
             ELSE [i \in 1..Len(raw) |->
                     ResearchQuestion(raw[i].id,
                         IF "dependencies" \in DOMAIN raw[i]
                         THEN raw[i].dependencies ELSE {})]

\* ------------------------------------- deepsearch: the planner's own steps

\* The text of a question as its tokens: words as written, and punctuation
\* marks. Two texts that differ by case and punctuation only, and a third.
TextX == <<"What", "is", "X", "?">>

TextXPlain == <<"what", "is", "x">>

TextOther == <<"Why", "y", "?">>

\* A text of its own for the question at each place of a list.
TextOf == <<<<"topic", "a">>, <<"topic", "b">>, <<"topic", "c">>, <<"topic", "d">>, <<"topic", "e">>>>

\* The sort keys a question may carry: category, order and priority.
PlanKeys ==
    { [category |-> "background", order |-> 0, priority |-> 1],
      [category |-> "background", order |-> 1, priority |-> 5],
      [category |-> "technical", order |-> 0, priority |-> 5] }

\* The key of a question whose answer names none: general, 0, 3.
DefaultKey == [category |-> "general", order |-> 0, priority |-> 3]

\* A question as PlannerAgent.plan builds it from the model's answer.
PlannedQuestion(id, text, deps, key) ==
    [ id |-> id, question |-> text, dependencies |-> deps,
      category |-> key.category, order |-> key.order, priority |-> key.priority ]

\* Questions whose ids repeat and whose texts repeat up to case and
\* punctuation, one of which depends on another.
RepeatedQuestions ==
    { PlannedQuestion("A", TextX, {}, DefaultKey),
      PlannedQuestion("B", TextXPlain, {}, DefaultKey),
      PlannedQuestion("A", TextXPlain, {}, DefaultKey),
      PlannedQuestion("B", TextX, {}, DefaultKey),
      PlannedQuestion("A", TextOther, {}, DefaultKey),
      PlannedQuestion("C", TextOther, {"B"}, DefaultKey) }

\* The lists of questions built from an answer. Questions with ids and
\* texts of their own: with any dependencies and the default key, or with
\* any key and a dependency on the second or none. And lists of questions
\* whose ids and texts repeat.
PlanInputs ==
    UNION { { [i \in 1..n |-> PlannedQuestion(IdSeq[i], TextOf[i], d[i], DefaultKey)] :
                d \in [1..n -> DepSets] }
            : n \in 0..MaxPlan }
    \cup
    UNION { { [i \in 1..n |-> PlannedQuestion(IdSeq[i], TextOf[i], d[i], k[i])] :
                d \in [1..n -> {{}, {"B"}}], k \in [1..n -> PlanKeys] }
            : n \in 1..MaxPlan }
    \cup
    UNION { [1..n -> RepeatedQuestions] : n \in 2..MaxPlan }

\* lower() that leaves the word as it is written.
LowerAsWritten(token) == token

\* str.lower() of a word.
Lower(token) ==
    CASE token = "What" -> "what"
      [] token = "X" -> "x"
      [] token = "Why" -> "why"
      [] token = "Compare" -> "compare"
      [] OTHER -> token

\* A token that [^\w\s] matches.
IsPunctuation(token) == token \in {"?", "!", ".", ","}

\* The signature _deduplicate_questions compares: the text in lower case,
\* without punctuation, its words separated by one blank.
RECURSIVE Signature(_)
Signature(text) ==
    IF text = <<>> THEN <<>>
    ELSE IF IsPunctuation(Head(text)) THEN Signature(Tail(text))
         ELSE <<Lower(Head(text))>> \o Signature(Tail(text))

\* `a in b` for two signatures: the words of a stand together in b.
Contains(b, a) ==
    \E k \in 0..(Len(b) - Len(a)) : \A i \in 1..Len(a) : b[k + i] = a[i]

\* Whether a signature counts as one already seen: one contains the other,
\* or more than 80% of the words of the longer are shared.
IsDuplicate(sig, seen_signatures) ==
    \E existing_sig \in seen_signatures :
        \/ Contains(existing_sig, sig)
        \/ Contains(sig, existing_sig)
        \/ /\ Range(sig) # {} /\ Range(existing_sig) # {}
           /\ 10 * Cardinality(Range(sig) \cap Range(existing_sig))
                > 8 * Max(Cardinality(Range(sig)), Cardinality(Range(existing_sig)))

\* The loop of _deduplicate_questions from question i on.
RECURSIVE DeduplicateFrom(_, _, _)
DeduplicateFrom(questions, i, seen_signatures) ==
    IF i > Len(questions) THEN <<>>
    ELSE LET sig == Signature(questions[i].question)
         IN  IF IsDuplicate(sig, seen_signatures)
             THEN DeduplicateFrom(questions, i + 1, seen_signatures)
             ELSE <<questions[i]>>
                  \o DeduplicateFrom(questions, i + 1, seen_signatures \cup {sig})

\* PlannerAgent._deduplicate_questions: the first question of each signature.
deduplicate_questions(questions) ==
    DeduplicateFrom(questions, 1, {})

\* question_map of _sort_questions: the last question that has the id.
question_map(questions, q_id) ==
    questions[CHOOSE i \in 1..Len(questions) :
        /\ questions[i].id = q_id
        /\ \A k \in (i + 1)..Len(questions) : questions[k].id # q_id]

\* The ids question_map has.
MappedIds(questions) == {questions[i].id : i \in 1..Len(questions)}

\* The traversal of _sort_questions as it starts: the ids still to visit from
\* the loop `for q in questions`, the calls of visit in progress (innermost
\* last, each with the dependencies it has still to visit), path, visited
\* and result.
Traversal(questions) ==
    [ phase |-> "sort",
      questions |-> questions,
      todo |-> [i \in 1..Len(questions) |-> questions[i].id],
      stack |-> <<>>,
      path |-> {},
      visited |-> {},
      result |-> <<>> ]

\* visit without the test `if q_id in path`.
visit_without_path_test(tr, q_id) ==
    IF q_id \in tr.visited THEN tr
    ELSE IF q_id \in MappedIds(tr.questions)
         THEN [ tr EXCEPT
                  !.path = tr.path \cup {q_id},
                  !.stack = Append(tr.stack,
                      [ id |-> q_id,
                        dependencies |-> question_map(tr.questions, q_id).dependencies ]) ]
         ELSE tr

\* visit(q_id, path) up to its loop over the dependencies: nothing for an id
\* that is visited or in progress; else the id joins path and, when the map
\* has it, the call stays open for its dependencies.
visit(tr, q_id) ==
    IF q_id \in tr.visited THEN tr
    ELSE IF q_id \in tr.path THEN tr
    ELSE IF q_id \in MappedIds(tr.questions)
         THEN [ tr EXCEPT
                  !.path = tr.path \cup {q_id},
                  !.stack = Append(tr.stack,
                      [ id |-> q_id,
                        dependencies |-> question_map(tr.questions, q_id).dependencies ]) ]
         ELSE tr

\* The end of the innermost call of visit: the id is visited, its question
\* joins result, and the id leaves path.
leave(tr) ==
    LET frame == tr.stack[Len(tr.stack)]
    IN  [ tr EXCEPT
            !.visited = tr.visited \cup {frame.id},
            !.result = Append(tr.result, question_map(tr.questions, frame.id)),
            !.path = tr.path \ {frame.id},
            !.stack = SubSeq(tr.stack, 1, Len(tr.stack) - 1) ]

\* The key of result.sort: (category, order, -priority), compared in order.
KeyBefore(a, b) ==
    \/ CategoryRank(a.category) < CategoryRank(b.category)
    \/ /\ a.category = b.category
       /\ \/ a.order < b.order
          \/ (a.order = b.order /\ a.priority > b.priority)

\* list.sort(key=...): stable, so questions of equal key keep their order.
SortByKey(result) ==
    LET Before(i, k) == KeyBefore(result[i], result[k])
                        \/ (~KeyBefore(result[k], result[i]) /\ i < k)
        place(i) == 1 + Cardinality({k \in 1..Len(result) : k # i /\ Before(k, i)})
    IN  [n \in 1..Len(result) |-> result[CHOOSE i \in 1..Len(result) : place(i) = n]]

\* The findings ResearcherAgent.research can return for a question: none (the
\* search found nothing) or one per result.
Finding(q, src) == [question |-> q, source |-> src, content |-> {"w1", "w2"}]

ProducerFindings(question) ==
    { <<>>, <<Finding(question.id, "u1")>> }

\* The texts of the findings handed to the verifier, each as the set of its
\* lower-case words (set(content.lower().split())): ten words; ten words of
\* which three are among the first ten (an overlap of exactly 0.3); and two of
\* the first ten (an overlap of 1.0 with them, of 0 with the second).
ContentA == {"w1", "w2", "w3", "w4", "w5", "w6", "w7", "w8", "w9", "w10"}

ContentB == {"w8", "w9", "w10", "w11", "w12", "w13", "w14", "w15", "w16", "w17"}

ContentC == {"w1", "w2"}

\* The findings the verifier may be given: about question A, from one of
\* two sources, with one of the three texts; and about question B, with the
\* first text.
VerifierFindings ==
    { [question |-> "A", source |-> src, content |-> c] :
        src \in {"u1", "u2"}, c \in {ContentA, ContentB, ContentC} }
    \cup { [question |-> "B", source |-> "u2", content |-> ContentA] }

\* The lists of findings VerifierAgent.verify is called with.
FindingLists ==
    UNION { [1..n -> VerifierFindings] : n \in 0..MaxFindings }

\* The questions a reflection may propose: a new id depending on a planned
\* question, and an id the plan already holds, without dependencies.
NewQuestions ==
    { ResearchQuestion("N", {"A"}),
      ResearchQuestion("A", {}) }

ReflectionResult(complete, new) == [is_complete |-> complete, new_questions |-> new]

\* What the model answers to the reflection prompt: text that is no JSON,
\* JSON without the required field is_complete, or a ReflectionResult.
ReflectorResponses ==
    {Malformed}
    \cup { [new_questions |-> <<>>] }
    \cup { ReflectionResult(c, <<>>) : c \in BOOLEAN }
    \cup { ReflectionResult(c, <<q>>) : c \in BOOLEAN, q \in NewQuestions }

\* --------------------------------------------------- deepsearch: the state

VARIABLES
    g,            \* the workflow's own state (the LangGraph channels)
    node,         \* the workflow node that runs next, "END" after write
    state,        \* the driver's local copy of the state (cli.py `state`)
    db,           \* the job's row of table research_jobs
    pc,           \* where the driver is: stream, handle, paused, completed, failed, continued
    should_stop,  \* the interrupt flag of cli.py
    dispatchLog,  \* every call of researcher.research of this run, in order
    reflectCount, \* how often reflect_node ran in this run (saturating)
    doneBefore,   \* ids dispatched before the job was handed to the workflow again
    reinvoked,    \* how often that happened
    answerLog     \* the answers the last node could not parse, and what came of each

varsR == <<g, node, state, db, pc, should_stop, dispatchLog, reflectCount, doneBefore, reinvoked,
          answerLog>>

\* ResearchStatus and the value each member is stored as.
ResearchStatusValue(status) ==
    CASE status = "PENDING" -> "pending"
      [] status = "RUNNING" -> "running"
      [] status = "PAUSED" -> "paused"
      [] status = "COMPLETED" -> "completed"
      [] status = "FAILED" -> "failed"

ResearchStatusOf(value) ==
    CHOOSE status \in {"PENDING", "RUNNING", "PAUSED", "COMPLETED", "FAILED"} :
        ResearchStatusValue(status) = value

\* The initial ResearchState of _run_research.
InitialState(max_iterations) ==
    [ status |-> "PENDING",
      plan |-> <<>>,
      current_question_index |-> 0,
      completed_question_ids |-> <<>>,
      findings |-> <<>>,
      search_history |-> <<>>,
      iteration |-> 0,
      max_iterations |-> max_iterations,
      reflection |-> None,
      verified_findings |-> <<>>,
      report |-> "",
      error |-> "None" ]

\* -------------------------------------------------- deepsearch: the store

\* json.dumps of a list of dumped items, and json.loads of the column.
JsonText(items) == [json |-> items]

JsonItems(text) == text.json

\* serialize_item: a pydantic model is dumped to a dictionary of its fields.
serialize_item(item) == [fields |-> item]

\* Model(**dict): the typed object built again from a dumped dictionary.
FromFields(dumped) == dumped.fields

\* serialize_list: "[]" for an empty list, else the JSON text of the dumped items.
serialize_list(items) ==
    IF items = <<>>
    THEN JsonText(<<>>)
    ELSE JsonText([i \in 1..Len(items) |-> serialize_item(items[i])])

\* [Model(**x) for x in json.loads(column or "[]")]
LoadList(column) ==
    LET text == IF column = Null THEN JsonText(<<>>) ELSE column
        items == JsonItems(text)
    IN  [i \in 1..Len(items) |-> FromFields(items[i])]

\* Storage.create_job: the inserted row; the columns it does not name take
\* the defaults of the table (Storage.init).
create_job(max_iterations) ==
    [ status |-> ResearchStatusValue("PENDING"),
      plan_json |-> Null,
      current_question_index |-> 0,
      findings_json |-> Null,
      search_history_json |-> Null,
      iteration |-> 0,
      max_iterations |-> max_iterations,
      reflection_json |-> Null,
      verified_findings_json |-> Null,
      report |-> "None",
      error |-> "None" ]

\* save_state with the iteration column left out of the UPDATE.
save_state_without_iteration(row, s) ==
    [ row EXCEPT
        !.status = ResearchStatusValue(s.status),
        !.plan_json = serialize_list(s.plan),
        !.current_question_index = s.current_question_index,
        !.findings_json = serialize_list(s.findings),
        !.search_history_json = serialize_list(s.search_history),
        !.reflection_json =
            IF s.reflection = None THEN Null ELSE JsonText(serialize_item(s.reflection)),
        !.verified_findings_json = serialize_list(s.verified_findings),
        !.report = s.report,
        !.error = s.error ]

\* Storage.save_state: the UPDATE of the job's row. max_iterations is no
\* column of the UPDATE, and completed_question_ids is no column of the table.
save_state(row, s) ==
    [ row EXCEPT
        !.status = ResearchStatusValue(s.status),
        !.plan_json = serialize_list(s.plan),
        !.current_question_index = s.current_question_index,
        !.findings_json = serialize_list(s.findings),
        !.search_history_json = serialize_list(s.search_history),
        !.iteration = s.iteration,
        !.reflection_json =
            IF s.reflection = None THEN Null ELSE JsonText(serialize_item(s.reflection)),
        !.verified_findings_json = serialize_list(s.verified_findings),
        !.report = s.report,
        !.error = s.error ]

\* Storage._row_to_state (behind load_state): the ResearchState built from
\* the row. It sets no completed_question_ids, which every reader then takes
\* as the empty list.
row_to_state(row) ==
    [ status |-> ResearchStatusOf(row.status),
      plan |-> LoadList(row.plan_json),
      current_question_index |-> row.current_question_index,
      completed_question_ids |-> <<>>,
      findings |-> LoadList(row.findings_json),
      search_history |-> LoadList(row.search_history_json),
      iteration |-> row.iteration,
      max_iterations |-> row.max_iterations,
      reflection |->
          IF row.reflection_json = Null THEN None
          ELSE FromFields(JsonItems(row.reflection_json)),
      verified_findings |-> LoadList(row.verified_findings_json),
      report |-> row.report,
      error |-> row.error ]

\* format_progress: what `status --id` shows of a loaded job: the status in
\* capitals, the cursor over the plan length as "Questions: i/n completed" and
\* the iteration over the budget when the plan is not empty, and the number
\* of findings when there are any.
format_progress(s) ==
    [ status |-> s.status,
      questions |-> IF s.plan # <<>>
                    THEN <<s.current_question_index, Len(s.plan)>> ELSE None,
      iteration |-> IF s.plan # <<>>
                    THEN <<s.iteration, s.max_iterations>> ELSE None,
      findings |-> IF s.findings # <<>> THEN Len(s.findings) ELSE None ]

\* ------------------------------------------ deepsearch: the workflow nodes

\* plan_node: the plan, and the cursor and the completed ids set back.
plan_node(s, questions) ==
    [ s EXCEPT
        !.plan = questions,
        !.current_question_index = 0,
        !.completed_question_ids = <<>>,
        !.status = "RUNNING" ]

\* The test with any() in place of all().
deps_satisfied_any(question, completed_ids) ==
    \E dep_id \in question.dependencies : dep_id \in Range(completed_ids)

\* research_node's test: all(dep_id in completed_ids for dep_id in dependencies).
deps_satisfied(question, completed_ids) ==
    \A dep_id \in question.dependencies : dep_id \in Range(completed_ids)

\* Whether research_node calls researcher.research in state s.
Dispatches(s) ==
    /\ s.current_question_index < Len(s.plan)
    /\ LET question == s.plan[s.current_question_index + 1]
       IN  question.dependencies = {} \/ deps_satisfied(question, s.completed_question_ids)

\* research_node that leaves the cursor on a question it has researched.
research_node_without_advance(s, found) ==
    LET idx == s.current_question_index
    IN  IF idx >= Len(s.plan) THEN s
        ELSE LET question == s.plan[idx + 1]
             IN  IF question.dependencies # {}
                    /\ ~deps_satisfied(question, s.completed_question_ids)
                 THEN [ s EXCEPT !.current_question_index = idx + 1 ]
                 ELSE [ s EXCEPT
                          !.findings = s.findings \o found,
                          !.search_history = Append(s.search_history, question.id),
                          !.completed_question_ids =
                              Append(s.completed_question_ids, question.id) ]

\* research_node that counts a question passed over as completed.
research_node_completing_deferred(s, found) ==
    LET idx == s.current_question_index
    IN  IF idx >= Len(s.plan) THEN s
        ELSE LET question == s.plan[idx + 1]
             IN  IF question.dependencies # {}
                    /\ ~deps_satisfied(question, s.completed_question_ids)
                 THEN [ s EXCEPT !.current_question_index = idx + 1,
                                 !.completed_question_ids =
                                     Append(s.completed_question_ids, question.id) ]
                 ELSE [ s EXCEPT
                          !.findings = s.findings \o found,
                          !.search_history = Append(s.search_history, question.id),
                          !.current_question_index = idx + 1,
                          !.completed_question_ids =
                              Append(s.completed_question_ids, question.id) ]

\* research_node, with `found` the findings researcher.research returns when
\* it is called.
research_node(s, found) ==
    LET idx == s.current_question_index
    IN  IF idx >= Len(s.plan) THEN s
        ELSE LET question == s.plan[idx + 1]
             IN  IF question.dependencies # {}
                    /\ ~deps_satisfied(question, s.completed_question_ids)
                 THEN [ s EXCEPT !.current_question_index = idx + 1 ]
                 ELSE [ s EXCEPT
                          !.findings = s.findings \o found,
                          !.search_history = Append(s.search_history, question.id),
                          !.current_question_index = idx + 1,
                          !.completed_question_ids =
                              Append(s.completed_question_ids, question.id) ]

\* ReflectorAgent.reflect: complete without asking once the budget is used;
\* the parsed answer; for an answer that is no JSON (JSONDecodeError) the
\* fallback; for JSON that ReflectionResult refuses a ValidationError, which
\* the except clause does not name.
reflect(findings, questions, iteration, max_iterations, response) ==
    IF iteration >= max_iterations THEN ReflectionResult(TRUE, <<>>)
    ELSE IF response = Malformed
         THEN ReflectionResult(Len(findings) > 0 \/ iteration >= max_iterations - 1, <<>>)
         ELSE IF ~Validates(response, {"is_complete"})
              THEN Raised
              ELSE response

\* reflect_node that does not count the iteration.
reflect_node_without_count(s, response) ==
    LET reflection == reflect(s.findings, s.plan, s.iteration, s.max_iterations, response)
    IN  IF reflection = Raised THEN Raised ELSE
        [ s EXCEPT
            !.reflection = reflection,
            !.plan = IF reflection.new_questions # <<>>
                     THEN s.plan \o reflection.new_questions
                     ELSE s.plan ]

\* reflect_node that puts the new questions in front of the plan.
reflect_node_prepending(s, response) ==
    LET reflection == reflect(s.findings, s.plan, s.iteration, s.max_iterations, response)
    IN  IF reflection = Raised THEN Raised ELSE
        [ s EXCEPT
            !.reflection = reflection,
            !.plan = IF reflection.new_questions # <<>>
                     THEN reflection.new_questions \o s.plan
                     ELSE s.plan,
            !.iteration = s.iteration + 1 ]

\* reflect_node: the reflection kept, its new questions appended, one more
\* iteration counted; or the exception of reflect.
reflect_node(s, response) ==
    LET reflection == reflect(s.findings, s.plan, s.iteration, s.max_iterations, response)
    IN  IF reflection = Raised THEN Raised ELSE
        [ s EXCEPT
            !.reflection = reflection,
            !.plan = IF reflection.new_questions # <<>>
                     THEN s.plan \o reflection.new_questions
                     ELSE s.plan,
            !.iteration = s.iteration + 1 ]

\* The edge with the budget test off by one (> for >=).
should_continue_off_by_one(s) ==
    IF s.iteration > s.max_iterations THEN "verify"
    ELSE IF s.current_question_index < Len(s.plan) THEN "continue"
    ELSE IF s.reflection # None /\ ~s.reflection.is_complete THEN "continue"
    ELSE "verify"

\* The edge with the test of the plan before the test of the budget.
should_continue_plan_first(s) ==
    IF s.current_question_index < Len(s.plan) THEN "continue"
    ELSE IF s.iteration >= s.max_iterations THEN "verify"
    ELSE IF s.reflection # None /\ ~s.reflection.is_complete THEN "continue"
    ELSE "verify"

\* The edge without its third test: what the reflection says is not read.
should_continue_without_reflection(s) ==
    IF s.iteration >= s.max_iterations THEN "verify"
    ELSE IF s.current_question_index < Len(s.plan) THEN "continue"
    ELSE "verify"

\* should_continue_researching: the conditional edge after research.
should_continue_researching(s) ==
    IF s.iteration >= s.max_iterations THEN "verify"
    ELSE IF s.current_question_index < Len(s.plan) THEN "continue"
    ELSE IF s.reflection # None /\ ~s.reflection.is_complete THEN "continue"
    ELSE "verify"

\* The edge map of the conditional edge: continue -> reflect, verify -> verify.
AfterResearch(s) ==
    IF should_continue_researching(s) = "continue" THEN "reflect" ELSE "verify"

\* VerifierAgent._content_similar: the share of common words in the smaller
\* word set is above 0.3.
content_similar(a, b) ==
    IF a = {} \/ b = {} THEN FALSE
    ELSE 10 * Cardinality(a \cap b) > 3 * Min(Cardinality(a), Cardinality(b))

VerifiedFinding(finding, status, supporting) ==
    [ finding |-> finding,
      verification_status |-> status,
      supporting_sources |-> supporting,
      conflicting_sources |-> <<>> ]

\* _verify_group that marks a finding disputed when another source of the
\* group says something else.
verify_group_with_disputes(findings) ==
    [ i \in 1..Len(findings) |->
        LET finding == findings[i]
            Supports(f) == f.source # finding.source
                           /\ content_similar(finding.content, f.content)
            Differs(f) == f.source # finding.source
                          /\ ~content_similar(finding.content, f.content)
            others == SelectSeq(findings, Supports)
            against == SelectSeq(findings, Differs)
            supporting == [k \in 1..Len(others) |-> others[k].source]
            status == IF Len(against) >= 1 THEN "disputed"
                      ELSE IF Len(supporting) >= 1 THEN "confirmed"
                      ELSE "unverified"
        IN  [ VerifiedFinding(finding, status, supporting) EXCEPT
                !.conflicting_sources = [k \in 1..Len(against) |-> against[k].source] ] ]

\* _verify_group that returns nothing for a finding the group has no second
\* source for.
verify_group_without_lone_sources(findings) ==
    LET Sourced(f) == \E k \in 1..Len(findings) : findings[k].source # f.source
        kept == SelectSeq(findings, Sourced)
    IN  [ i \in 1..Len(kept) |->
            LET finding == kept[i]
                Supports(f) == f.source # finding.source
                               /\ content_similar(finding.content, f.content)
                others == SelectSeq(findings, Supports)
                supporting == [k \in 1..Len(others) |-> others[k].source]
                status == IF Len(supporting) >= 1 THEN "confirmed" ELSE "unverified"
            IN  VerifiedFinding(finding, status, supporting) ]

\* VerifierAgent._verify_group: a finding is confirmed when another source
\* of the group has similar content.
verify_group(findings) ==
    [ i \in 1..Len(findings) |->
        LET finding == findings[i]
            Supports(f) == f.source # finding.source
                           /\ content_similar(finding.content, f.content)
            others == SelectSeq(findings, Supports)
            supporting == [k \in 1..Len(others) |-> others[k].source]
            status == IF Len(supporting) = 1 THEN "confirmed"
                      ELSE IF Len(supporting) >= 2 THEN "confirmed"
                      ELSE "unverified"
        IN  VerifiedFinding(finding, status, supporting) ]

\* The questions of a list of findings, each once, in order of first
\* appearance (the keys of by_question).
RECURSIVE QuestionKeys(_)
QuestionKeys(findings) ==
    IF findings = <<>> THEN <<>>
    ELSE LET first == findings[1].question
             Other(f) == f.question # first
         IN  <<first>> \o QuestionKeys(SelectSeq(Tail(findings), Other))

RECURSIVE VerifyGroups(_, _)
VerifyGroups(keys, findings) ==
    IF keys = <<>> THEN <<>>
    ELSE LET InGroup(f) == f.question = keys[1]
         IN  verify_group(SelectSeq(findings, InGroup)) \o VerifyGroups(Tail(keys), findings)

\* VerifierAgent.verify: nothing for no finding, all unverified for up to
\* three findings, else group by group.
verify(findings) ==
    IF findings = <<>> THEN <<>>
    ELSE IF Len(findings) <= 3
         THEN [i \in 1..Len(findings) |-> VerifiedFinding(findings[i], "unverified", <<>>)]
         ELSE VerifyGroups(QuestionKeys(findings), findings)

\* VerifierAgent.find_conflicts.
find_conflicts(findings) == <<>>

\* verify_node.
verify_node(s) == [ s EXCEPT !.verified_findings = verify(s.findings) ]

\* WriterAgent.write: the fixed text for no finding, else the model's text.
write(verified_findings) ==
    IF verified_findings = <<>> THEN "No findings available." ELSE "report"

\* write_node.
write_node(s) ==
    [ s EXCEPT !.report = write(s.verified_findings), !.status = "COMPLETED" ]

\* ------------------------------------------- deep_thinking: the variables

VARIABLES
    session,      \* the ThinkingSession object of the running process
    disk,         \* thinking-progress.json of the session
    findingsLog,  \* findings.md: the task ids appended, in order
    tpc,          \* where _run_session is
    auto,         \* the --auto flag of the running process
    opLog,        \* the phase operations run since the last load, as <<task, operation>>
    parseLog,     \* the answers the last phase operation could not parse, and what came of each
    loadedPhase,  \* the phase of each task in the record the process loaded
    decided,      \* the checkpoints answered since the last phase operation, in any process
    challengeLog  \* the texts typed at checkpoints since the last synthesis, and the list that synthesis was given

varsT == <<session, disk, findingsLog, tpc, auto, opLog, parseLog, loadedPhase, decided,
           challengeLog>>

\* ------------------------------------------- single calls: the variables

VARIABLES
    fn,           \* the function called on its own, "none" when there is no such call
    input,        \* the argument of the call
    output,       \* what the call returned
    returned      \* whether the call has returned

varsF == <<fn, input, output, returned>>

vars == <<varsR, varsT, varsF>>

\* --------------------------------------------- deep_thinking: the session

\* ThinkingPhase, in its order.
ThinkingPhases == <<"PENDING", "ANCHORED", "GENERATED", "CRITIQUED", "VERIFIED", "SYNTHESIZED">>

PhaseRank(phase) == CHOOSE i \in 1..Len(ThinkingPhases) : ThinkingPhases[i] = phase

\* The value each ThinkingPhase is dumped as, and the member a value loads as.
ThinkingPhaseValue(phase) ==
    CASE phase = "PENDING" -> "pending"
      [] phase = "ANCHORED" -> "anchored"
      [] phase = "GENERATED" -> "generated"
      [] phase = "CRITIQUED" -> "critiqued"
      [] phase = "VERIFIED" -> "verified"
      [] phase = "SYNTHESIZED" -> "synthesized"

ThinkingPhaseOf(value) ==
    CHOOSE phase \in Range(ThinkingPhases) : ThinkingPhaseValue(phase) = value

\* SessionStatus and its dumped values.
SessionStatusValue(status) ==
    CASE status = "ACTIVE" -> "active"
      [] status = "PAUSED" -> "paused"
      [] status = "COMPLETED" -> "completed"

SessionStatusOf(value) ==
    CHOOSE status \in {"ACTIVE", "PAUSED", "COMPLETED"} : SessionStatusValue(status) = value

\* The text of a goal or of a task's topic as its tokens: one that holds no
\* keyword of a domain, and two that hold "compare" or "vs".
TopicPlain == <<"rust", "basics">>

TopicCompare == <<"Compare", "rust", "and", "go">>

TopicVs == <<"rust", "vs", "go">>

GoalPlain == <<"learn", "rust">>

GoalCompare == <<"Compare", "rust", "and", "go">>

\* str.lower() of a text.
LowerText(text) == [i \in 1..Len(text) |-> Lower(text[i])]

\* The plugin of domains/tech_eval.py, with two of its detection keywords
\* and two of its multi_school_topics.
TECH_EVAL_DOMAIN ==
    [ name |-> "tech-eval",
      detection_keywords |-> {<<"compare">>, <<"vs">>},
      multi_school_topics |-> {<<"vs">>, <<"compare">>} ]

\* The registered plugins.
REGISTRY == {TECH_EVAL_DOMAIN}

\* get_domain: the plugin of that name, or None.
get_domain(name) ==
    IF \E plugin \in REGISTRY : plugin.name = name
    THEN CHOOSE plugin \in REGISTRY : plugin.name = name
    ELSE None

\* detect_domain: the plugin most of whose detection keywords are in the
\* goal in lower case, or None when no keyword of any plugin is.
detect_domain(goal) ==
    LET score(plugin) ==
            Cardinality({kw \in plugin.detection_keywords : Contains(LowerText(goal), kw)})
    IN  IF \E plugin \in REGISTRY : score(plugin) > 0
        THEN CHOOSE plugin \in REGISTRY : \A other \in REGISTRY : score(plugin) >= score(other)
        ELSE None

\* ThinkingEngine._resolve_domain, for the engine _create_engine builds:
\* the plugin the session names, else the plugin detected from the goal.
resolve_domain(s) ==
    IF s.domain # "auto" THEN get_domain(s.domain) ELSE detect_domain(s.goal)

\* DomainPlugin.should_trigger_council: one of multi_school_topics is in the
\* topic in lower case.
should_trigger_council(domain, topic) ==
    \E kw \in domain.multi_school_topics : Contains(LowerText(topic), kw)

\* ThinkingTask as the decomposition creates it.
ThinkingTask(id) ==
    [ id |-> id,
      topic |-> TopicPlain,
      phase |-> "PENDING",
      anchor_output |-> "None",
      generation_output |-> "None",
      confidence |-> "None",
      critique_points |-> <<>>,
      council_triggered |-> FALSE,
      council_positions |-> <<>>,
      verified_claims |-> <<>>,
      synthesis |-> "None" ]

\* ThinkingSession as create_session builds it.
ThinkingSession ==
    [ goal |-> GoalPlain, domain |-> "auto",
      tasks |-> <<>>, status |-> "ACTIVE", user_challenges |-> <<>> ]

\* current_task taking the last task that is not SYNTHESIZED.
current_task_last(s) ==
    IF \E i \in 1..Len(s.tasks) : s.tasks[i].phase # "SYNTHESIZED"
    THEN CHOOSE i \in 1..Len(s.tasks) :
            /\ s.tasks[i].phase # "SYNTHESIZED"
            /\ \A k \in (i + 1)..Len(s.tasks) : s.tasks[k].phase = "SYNTHESIZED"
    ELSE 0

\* ThinkingSession.current_task: the first task that is not SYNTHESIZED, as
\* its position in the list; 0 for None.
current_task(s) ==
    IF \E i \in 1..Len(s.tasks) : s.tasks[i].phase # "SYNTHESIZED"
    THEN CHOOSE i \in 1..Len(s.tasks) :
            /\ s.tasks[i].phase # "SYNTHESIZED"
            /\ \A k \in 1..(i - 1) : s.tasks[k].phase = "SYNTHESIZED"
    ELSE 0

\* ThinkingSession.is_complete.
is_complete(s) ==
    /\ \A i \in 1..Len(s.tasks) : s.tasks[i].phase = "SYNTHESIZED"
    /\ Len(s.tasks) > 0

\* _save_progress: session.model_dump(mode="json") written to the file.
save_session(s) ==
    [ tasks |-> [i \in 1..Len(s.tasks) |->
                    [ s.tasks[i] EXCEPT !.phase = ThinkingPhaseValue(s.tasks[i].phase) ]],
      status |-> SessionStatusValue(s.status),
      goal |-> s.goal, domain |-> s.domain,
      user_challenges |-> s.user_challenges ]

\* load_session: ThinkingSession(**data) of the file.
load_session(data) ==
    [ tasks |-> [i \in 1..Len(data.tasks) |->
                    [ data.tasks[i] EXCEPT !.phase = ThinkingPhaseOf(data.tasks[i].phase) ]],
      status |-> SessionStatusOf(data.status),
      goal |-> data.goal, domain |-> data.domain,
      user_challenges |-> data.user_challenges ]

\* What the decomposition call returns: the tasks the model lists (none for
\* an empty list), or the single task of the fallback for text that is no JSON.
TaskIds == <<"t1", "t2", "t3", "t4">>

DecomposedTasks ==
    { [i \in 1..n |-> ThinkingTask(TaskIds[i])] : n \in 0..MaxTasks }

\* CritiquePoint.
CritiquePoint(severity, critique_text, suggestion) ==
    [severity |-> severity, critique |-> critique_text, suggestion |-> suggestion]

\* What the critique call answers: text that is no JSON; critique points with
\* a confidence and the recommendation of a council or not; or JSON whose
\* critique point lacks the required field `critique`.
CritiqueResponses ==
    { Malformed }
    \cup { [critique_points |-> <<CritiquePoint("high", "gap", "close it")>>,
            overall_confidence |-> "0.8",
            recommended_council |-> c] : c \in BOOLEAN }
    \cup { [critique_points |-> <<[severity |-> "high"]>>,
            overall_confidence |-> "0.8",
            recommended_council |-> FALSE] }

\* critique with a fallback point of medium severity.
critique_fallback_medium(topic, domain, response) ==
    IF response = Malformed
    THEN [critique_points |->
              <<CritiquePoint("medium", "Unable to perform structured critique",
                              "Manual review recommended")>>,
          confidence |-> "0.5",
          should_council |-> FALSE]
    ELSE IF \E i \in 1..Len(response.critique_points) :
                ~Validates(response.critique_points[i], {"critique"})
         THEN Raised
         ELSE [critique_points |-> response.critique_points,
               confidence |-> response.overall_confidence,
               should_council |->
                   \/ response.recommended_council
                   \/ (domain # None /\ should_trigger_council(domain, topic))]

\* AdversarialAgent.critique: the points, the confidence and whether a council
\* is due. Text that is no JSON (JSONDecodeError) gives the fallback point of
\* low severity, 0.5 and no council; a point that CritiquePoint refuses raises
\* a ValidationError, which the except clause does not name. For an answer
\* that parses, a council is due also when the domain says so for the topic.
critique(topic, domain, response) ==
    IF response = Malformed
    THEN [critique_points |->
              <<CritiquePoint("low", "Unable to perform structured critique",
                              "Manual review recommended")>>,
          confidence |-> "0.5",
          should_council |-> FALSE]
    ELSE IF \E i \in 1..Len(response.critique_points) :
                ~Validates(response.critique_points[i], {"critique"})
         THEN Raised
         ELSE [critique_points |-> response.critique_points,
               confidence |-> response.overall_confidence,
               should_council |->
                   \/ response.recommended_council
                   \/ (domain # None /\ should_trigger_council(domain, topic))]

\* What the council call answers: text that is no JSON, one position, or
\* JSON whose position lacks required fields.
CouncilResponses ==
    { Malformed,
      [positions |-> <<[expert_name |-> "Theorist", perspective |-> "rigor",
                        position |-> "text"]>>],
      [positions |-> <<[expert_name |-> "Theorist"]>>] }

\* AdversarialAgent.run_council: the positions; none for text that is no
\* JSON; a ValidationError for a position CouncilPosition refuses.
run_council(response) ==
    IF response = Malformed THEN [positions |-> <<>>]
    ELSE IF \E i \in 1..Len(response.positions) :
                ~Validates(response.positions[i], {"expert_name", "perspective", "position"})
         THEN Raised
         ELSE [positions |-> response.positions]

\* What the calls of verification answer: the claim extraction (text that is
\* no JSON, one claim, or an item without the key `claim`), the judgment of a
\* claim (text that is no JSON, a status, or a status VerificationStatus does
\* not have) and the number of opposing views the search returns.
FactCheckResponses ==
    { [extraction |-> Malformed, judgment |-> Malformed, oppositions |-> 0],
      [extraction |-> [claims |-> <<[claim |-> "c"]>>],
       judgment |-> [status |-> "confirmed"], oppositions |-> 1],
      [extraction |-> [claims |-> <<[claim |-> "c"]>>],
       judgment |-> Malformed, oppositions |-> 0],
      [extraction |-> [claims |-> <<[claim |-> "c"]>>],
       judgment |-> [status |-> "maybe"], oppositions |-> 0],
      [extraction |-> [claims |-> <<[search_query |-> "c"]>>],
       judgment |-> Malformed, oppositions |-> 0] }

\* FactCheckAgent._extract_claims: the listed claims, none for text that is
\* no JSON.
extract_claims(extraction) ==
    IF extraction = Malformed THEN <<>> ELSE extraction.claims

\* search_tool.search(search_query, max_results=3) returns at most this many
\* results.
max_results == 3

\* What the search for a claim comes to: an exception, or a number of results.
SearchOutcomes == {Raised} \cup { [results |-> k] : k \in 0..max_results }

\* A search that found something.
SearchFound == [results |-> 1]

\* What the judgment call comes to: an exception, text that is no JSON, or
\* JSON with or without a status (one of VerificationStatus or not) and notes.
JudgmentAnswers ==
    {Raised, Malformed}
    \cup { [status |-> s, notes |-> n] :
             s \in {"confirmed", "disputed", "unverified", "maybe"}, n \in {"", "note"} }
    \cup { [notes |-> n] : n \in {"", "note"} }

\* VerifiedClaim, by its status and notes.
VerifiedClaim(status, notes) == [status |-> status, notes |-> notes]

\* _verify_single_claim without the test for an empty result list.
verify_single_claim_without_results_test(search, judgment) ==
    IF search = Raised \/ judgment = Raised \/ judgment = Malformed
    THEN VerifiedClaim("unverified", "Verification failed due to error")
    ELSE IF "status" \in DOMAIN judgment
            /\ judgment.status \notin {"confirmed", "disputed", "unverified"}
         THEN VerifiedClaim("unverified", "Verification failed due to error")
         ELSE VerifiedClaim(
                  IF "status" \in DOMAIN judgment THEN judgment.status ELSE "unverified",
                  IF "notes" \in DOMAIN judgment THEN judgment.notes ELSE "")

\* FactCheckAgent._verify_single_claim: UNVERIFIED with a note when the search
\* finds nothing; the judged status and notes; UNVERIFIED with a note for
\* whatever goes wrong (except Exception): the search or the model raising,
\* text that is no JSON, a status VerificationStatus does not have.
verify_single_claim(search, judgment) ==
    IF search = Raised
    THEN VerifiedClaim("unverified", "Verification failed due to error")
    ELSE IF search.results = 0
         THEN VerifiedClaim("unverified", "No search results found")
         ELSE IF judgment = Raised \/ judgment = Malformed
              THEN VerifiedClaim("unverified", "Verification failed due to error")
              ELSE IF "status" \in DOMAIN judgment
                      /\ judgment.status \notin {"confirmed", "disputed", "unverified"}
                   THEN VerifiedClaim("unverified", "Verification failed due to error")
                   ELSE VerifiedClaim(
                            IF "status" \in DOMAIN judgment
                            THEN judgment.status ELSE "unverified",
                            IF "notes" \in DOMAIN judgment THEN judgment.notes ELSE "")

\* FactCheckAgent.verify_task: every extracted claim judged; claim_data["claim"]
\* raises a KeyError, outside every try, for an item without that key.
verify_task(extraction, judgment) ==
    LET claims == extract_claims(extraction)
    IN  IF \E i \in 1..Len(claims) : "claim" \notin DOMAIN claims[i]
        THEN Raised
        ELSE [verified_claims |-> [i \in 1..Len(claims) |->
                                     verify_single_claim(SearchFound, judgment).status]]

\* What the synthesis call answers: text that ends in CONFIDENCE: and a
\* number, in CONFIDENCE: and something else, or text without the marker.
SynthesisResponses ==
    { [marker |-> TRUE, confidence |-> "0.9"],
      [marker |-> TRUE, confidence |-> "high"],
      [marker |-> FALSE] }

\* float(text) succeeds.
IsFloat(text) == text \in {"0.5", "0.8", "0.9"}

\* The test with GENERATED admitted as well.
runs_phase_a_b_again(task) == task.phase \in {"PENDING", "ANCHORED", "GENERATED"}

\* The driver's test before phases A and B.
runs_phase_a_b(task) == task.phase \in {"PENDING", "ANCHORED"}

\* run_phase_a_b up to its call of the model: the task anchored, with the
\* anchor output anchor_single_task sets when the domain gives anchors.
run_phase_a(s, t, anchor_output) ==
    [ s EXCEPT !.tasks[t].anchor_output = anchor_output,
               !.tasks[t].phase = "ANCHORED" ]

\* run_phase_a_b from the model's answer on: the task generated.
run_phase_b(s, t) ==
    [ s EXCEPT !.tasks[t].generation_output = "text",
               !.tasks[t].phase = "GENERATED" ]

\* run_phase_c: the critique, the council when it is due, the task
\* critiqued; or the exception of either call.
run_phase_c(s, t, response, council) ==
    LET result == critique(s.tasks[t].topic, resolve_domain(s), response)
    IN  IF result = Raised THEN Raised
        ELSE LET debate == IF result.should_council
                           THEN run_council(council)
                           ELSE [positions |-> s.tasks[t].council_positions]
             IN  IF debate = Raised THEN Raised
                 ELSE [ s EXCEPT !.tasks[t].critique_points = result.critique_points,
                                 !.tasks[t].confidence = result.confidence,
                                 !.tasks[t].council_triggered =
                                     result.should_council \/ s.tasks[t].council_triggered,
                                 !.tasks[t].council_positions = debate.positions,
                                 !.tasks[t].phase = "CRITIQUED" ]

\* run_phase_d: the checked claims kept, every opposing view appended as a
\* critique point of low severity, the task verified; or the exception of
\* verify_task.
run_phase_d(s, t, response) ==
    LET result == verify_task(response.extraction, response.judgment)
    IN  IF result = Raised THEN Raised
        ELSE [ s EXCEPT
                 !.tasks[t].verified_claims = result.verified_claims,
                 !.tasks[t].critique_points =
                     s.tasks[t].critique_points
                     \o [k \in 1..response.oppositions |->
                            CritiquePoint("low", "opposition",
                                          "Consider incorporating this perspective")],
                 !.tasks[t].phase = "VERIFIED" ]

\* The challenges run_phase_e writes into the synthesis prompt: its argument
\* user_challenges when that is given and not empty, else those of the session.
user_challenges_text(s, user_challenges) ==
    IF user_challenges # <<>> THEN user_challenges ELSE s.user_challenges

\* What the user may type at a checkpoint of each task.
ChallengeTexts == <<"challenge 1", "challenge 2", "challenge 3", "challenge 4">>

\* run_phase_e without its test of is_complete: the status is left as it is.
run_phase_e_without_status(s, t, response) ==
    LET confidence == IF response.marker /\ IsFloat(response.confidence)
                      THEN response.confidence
                      ELSE s.tasks[t].confidence
    IN  [ s EXCEPT !.tasks[t].synthesis = "text",
                   !.tasks[t].confidence = confidence,
                   !.tasks[t].phase = "SYNTHESIZED" ]

\* run_phase_e: the synthesis kept, the confidence taken from the text when
\* it parses as a number (else left as it is), the task synthesized, the
\* session completed once every task is.
run_phase_e(s, t, response) ==
    LET confidence == IF response.marker /\ IsFloat(response.confidence)
                      THEN response.confidence
                      ELSE s.tasks[t].confidence
        done == [ s EXCEPT !.tasks[t].synthesis = "text",
                           !.tasks[t].confidence = confidence,
                           !.tasks[t].phase = "SYNTHESIZED" ]
    IN  IF is_complete(done) THEN [ done EXCEPT !.status = "COMPLETED" ] ELSE done

\* The phases of the tasks of a session object.
Phases(s) == [i \in 1..Len(s.tasks) |-> s.tasks[i].phase]

\* ------------------------------------------------ deepsearch: the actions

\* What is logged for an answer a node could not parse: the call, how the
\* answer failed (no JSON, or JSON of the wrong shape) and what came of it
\* (a fallback value, or an exception).
AnswerEntry(call, kind, outcome) ==
    IF kind = "parsed" THEN {}
    ELSE {[call |-> call, kind |-> kind, outcome |-> outcome]}

\* How an answer to the reflection prompt parses.
ReflectorKind(response) ==
    IF response = Malformed THEN "invalid_json"
    ELSE IF ~Validates(response, {"is_complete"}) THEN "wrong_shape"
    ELSE "parsed"

\* The plan the run starts with is still empty: _run_research creates the
\* job and the initial state and begins to stream the workflow.
InitWith(budgets) ==
    \E max_iterations \in budgets :
        /\ g = InitialState(max_iterations)
        /\ state = InitialState(max_iterations)
        /\ db = create_job(max_iterations)
        /\ node = "plan"
        /\ pc = "stream"
        /\ should_stop = FALSE
        /\ dispatchLog = <<>>
        /\ reflectCount = 0
        /\ doneBefore = {}
        /\ reinvoked = 0
        /\ answerLog = {}

\* A job created with a budget of up to MaxIter iterations.
InitR == InitWith(0..MaxIter)

\* The workflow runs node plan and yields its output.
PlanNode ==
    /\ pc = "stream" /\ node = "plan"
    /\ \E response \in PlannerResponses :
          /\ plan(response) # <<Raised>>
          /\ g' = plan_node(g, plan(response))
          /\ answerLog' = AnswerEntry("planner", PlannerKind(response), "fallback")
    /\ node' = "research"
    /\ pc' = "handle"
    /\ UNCHANGED <<state, db, should_stop, dispatchLog, reflectCount, doneBefore, reinvoked>>
    /\ UNCHANGED <<varsT, varsF>>

\* The planner raises out of node plan: the driver's except clause marks the
\* state FAILED, keeps the error text and saves.
PlanNodeRaises ==
    /\ pc = "stream" /\ node = "plan"
    /\ \E response \in PlannerResponses :
          /\ plan(response) = <<Raised>>
          /\ answerLog' = AnswerEntry("planner", PlannerKind(response), "raised")
    /\ state' = [ state EXCEPT !.status = "FAILED", !.error = "error" ]
    /\ db' = save_state(db, state')
    /\ pc' = "failed"
    /\ UNCHANGED <<g, node, should_stop, dispatchLog, reflectCount, doneBefore, reinvoked>>
    /\ UNCHANGED <<varsT, varsF>>

\* The workflow runs node research, then the conditional edge.
ResearchNode ==
    /\ pc = "stream" /\ node = "research"
    /\ IF Dispatches(g)
       THEN LET question == g.plan[g.current_question_index + 1]
            IN  /\ \E found \in ProducerFindings(question) : g' = research_node(g, found)
                /\ dispatchLog' = Append(dispatchLog,
                       [ id |-> question.id,
                         index |-> g.current_question_index,
                         dependencies |-> question.dependencies,
                         completed |-> Range(g.completed_question_ids) ])
       ELSE /\ g' = research_node(g, <<>>)
            /\ dispatchLog' = dispatchLog
    /\ node' = AfterResearch(g')
    /\ pc' = "handle"
    /\ answerLog' = {}
    /\ UNCHANGED <<state, db, should_stop, reflectCount, doneBefore, reinvoked>>
    /\ UNCHANGED <<varsT, varsF>>

\* The workflow runs node reflect.
ReflectNode ==
    /\ pc = "stream" /\ node = "reflect"
    /\ \E response \in ReflectorResponses :
          /\ reflect_node(g, response) # Raised
          /\ (response # Malformed /\ response.new_questions # <<>>)
                => Len(g.plan) < MaxPlan + MaxNew
          /\ g' = reflect_node(g, response)
          /\ answerLog' = AnswerEntry("reflector", ReflectorKind(response), "fallback")
    /\ reflectCount' = Min(reflectCount + 1, MaxIter + 1)
    /\ node' = "research"
    /\ pc' = "handle"
    /\ UNCHANGED <<state, db, should_stop, dispatchLog, doneBefore, reinvoked>>
    /\ UNCHANGED <<varsT, varsF>>

\* The reflector raises out of node reflect: the driver's except clause marks
\* the state FAILED, keeps the error text and saves.
ReflectNodeRaises ==
    /\ pc = "stream" /\ node = "reflect"
    /\ \E response \in ReflectorResponses :
          /\ reflect_node(g, response) = Raised
          /\ answerLog' = AnswerEntry("reflector", ReflectorKind(response), "raised")
    /\ reflectCount' = Min(reflectCount + 1, MaxIter + 1)
    /\ state' = [ state EXCEPT !.status = "FAILED", !.error = "error" ]
    /\ db' = save_state(db, state')
    /\ pc' = "failed"
    /\ UNCHANGED <<g, node, should_stop, dispatchLog, doneBefore, reinvoked>>
    /\ UNCHANGED <<varsT, varsF>>

\* The workflow runs node verify.
VerifyNode ==
    /\ pc = "stream" /\ node = "verify"
    /\ g' = verify_node(g)
    /\ node' = "write"
    /\ pc' = "handle"
    /\ answerLog' = {}
    /\ UNCHANGED <<state, db, should_stop, dispatchLog, reflectCount, doneBefore, reinvoked>>
    /\ UNCHANGED <<varsT, varsF>>

\* The workflow runs node write.
WriteNode ==
    /\ pc = "stream" /\ node = "write"
    /\ g' = write_node(g)
    /\ node' = "END"
    /\ pc' = "handle"
    /\ answerLog' = {}
    /\ UNCHANGED <<state, db, should_stop, dispatchLog, reflectCount, doneBefore, reinvoked>>
    /\ UNCHANGED <<varsT, varsF>>

\* The body of `async for event in workflow.astream(state)`: with the flag
\* set, the state is marked PAUSED and saved as it is and the driver
\* returns; else the node's output is merged into the state and saved.
HandleEvent ==
    /\ pc = "handle"
    /\ IF should_stop
       THEN /\ state' = [ state EXCEPT !.status = "PAUSED" ]
            /\ pc' = "paused"
       ELSE /\ state' = g
            /\ pc' = "stream"
    /\ db' = save_state(db, state')
    /\ UNCHANGED <<g, node, should_stop, dispatchLog, reflectCount, doneBefore, reinvoked, answerLog>>
    /\ UNCHANGED <<varsT, varsF>>

\* The stream has ended: the state is marked COMPLETED and saved.
Finish ==
    /\ pc = "stream" /\ node = "END"
    /\ state' = [ state EXCEPT !.status = "COMPLETED" ]
    /\ db' = save_state(db, state')
    /\ pc' = "completed"
    /\ UNCHANGED <<g, node, should_stop, dispatchLog, reflectCount, doneBefore, reinvoked, answerLog>>
    /\ UNCHANGED <<varsT, varsF>>

\* SIGINT: signal_handler sets the flag.
SigInt ==
    /\ pc \in {"stream", "handle"}
    /\ ~should_stop
    /\ should_stop' = TRUE
    /\ UNCHANGED <<g, node, state, db, pc, dispatchLog, reflectCount, doneBefore, reinvoked, answerLog>>
    /\ UNCHANGED <<varsT, varsF>>

\* The except clause without its save_state: the row is left as the last
\* event wrote it.
NodeRaisesWithoutSave ==
    /\ pc = "stream" /\ node # "END"
    /\ state' = [ state EXCEPT !.status = "FAILED", !.error = "error" ]
    /\ pc' = "failed"
    /\ UNCHANGED <<g, node, db, should_stop, dispatchLog, reflectCount, doneBefore, reinvoked, answerLog>>
    /\ UNCHANGED <<varsT, varsF>>

\* A node raises: the driver's except clause marks the state FAILED, keeps
\* the error text and saves.
NodeRaises ==
    /\ pc = "stream" /\ node # "END"
    /\ state' = [ state EXCEPT !.status = "FAILED", !.error = "error" ]
    /\ db' = save_state(db, state')
    /\ pc' = "failed"
    /\ UNCHANGED <<g, node, should_stop, dispatchLog, reflectCount, doneBefore, reinvoked, answerLog>>
    /\ UNCHANGED <<varsT, varsF>>

\* _continue_research: the job is loaded and shown; the workflow is not run.
ContinueResearch ==
    /\ pc \in {"paused", "failed", "completed"}
    /\ state' = row_to_state(db)
    /\ pc' = "continued"
    /\ UNCHANGED <<g, node, db, should_stop, dispatchLog, reflectCount, doneBefore, reinvoked, answerLog>>
    /\ UNCHANGED <<varsT, varsF>>

\* The compiled workflow streamed again on the state load_state returns for
\* a job that is not completed: it enters at node plan, as every run does.
ReinvokeWorkflow ==
    /\ pc = "paused"
    /\ reinvoked < MaxReinvoke
    /\ g' = row_to_state(db)
    /\ state' = row_to_state(db)
    /\ node' = "plan"
    /\ pc' = "stream"
    /\ should_stop' = FALSE
    /\ doneBefore' = doneBefore \cup {dispatchLog[i].id : i \in 1..Len(dispatchLog)}
    /\ dispatchLog' = <<>>
    /\ reflectCount' = 0
    /\ reinvoked' = reinvoked + 1
    /\ UNCHANGED <<db, answerLog>>
    /\ UNCHANGED <<varsT, varsF>>

\* No function is called on its own.
IdleF ==
    /\ fn = "none"
    /\ input = <<>>
    /\ output = <<>>
    /\ returned = FALSE

\* The thinking session is not running.
IdleT ==
    /\ session = None
    /\ disk = None
    /\ findingsLog = <<>>
    /\ tpc = "off"
    /\ auto = FALSE
    /\ opLog = {}
    /\ parseLog = {}
    /\ loadedPhase = <<>>
    /\ decided = {}
    /\ challengeLog = [supplied |-> {}, passed |-> <<>>]

\* One step of a run in which every call returns and no signal arrives.
NextRun ==
    \/ PlanNode
    \/ ResearchNode
    \/ ReflectNode
    \/ VerifyNode
    \/ WriteNode
    \/ HandleEvent
    \/ Finish

Next ==
    \/ NextRun
    \/ SigInt
    \/ NodeRaises
    \/ PlanNodeRaises
    \/ ReflectNodeRaises
    \/ ContinueResearch

Init == InitR /\ IdleT /\ IdleF

\* A research job under the command-line driver.
Spec == Init /\ [][Next]_vars

\* A research job whose calls all return and that no signal interrupts.
LiveSpec == Init /\ [][NextRun]_vars /\ WF_vars(NextRun)

\* A job created with a budget of up to MaxBudget iterations.
InitPass == InitWith(0..MaxBudget) /\ IdleT /\ IdleF

\* A research job whose calls all return and that no signal interrupts, with
\* the larger budget.
PassSpec == InitPass /\ [][NextRun]_vars /\ WF_vars(NextRun)

\* One step of a job that, once paused, is handed to the workflow again.
NextResume ==
    \/ NextRun
    \/ SigInt
    \/ ReinvokeWorkflow

ResumeSpec == Init /\ [][NextResume]_vars

\* ---------------------------------------------- deep_thinking: the actions

\* No research job is running.
IdleR ==
    /\ g = InitialState(0)
    /\ state = InitialState(0)
    /\ db = create_job(0)
    /\ node = "END"
    /\ pc = "off"
    /\ should_stop = FALSE
    /\ dispatchLog = <<>>
    /\ reflectCount = 0
    /\ doneBefore = {}
    /\ reinvoked = 0
    /\ answerLog = {}

\* create_session has written the record of a new session; no process runs.
InitT ==
    /\ session = None
    /\ disk = save_session(ThinkingSession)
    /\ findingsLog = <<>>
    /\ tpc = "off"
    /\ auto = FALSE
    /\ opLog = {}
    /\ parseLog = {}
    /\ loadedPhase = <<>>
    /\ decided = {}
    /\ challengeLog = [supplied |-> {}, passed |-> <<>>]

\* What is logged for an answer that did not parse: the task, the call, how
\* the answer failed (no JSON, or JSON of the wrong shape) and what came of
\* it (the fallback, or an exception).
ParseEntry(t, call, response, result) ==
    IF response # Malformed /\ result # Raised THEN {}
    ELSE {[ task |-> t,
            call |-> call,
            kind |-> IF response = Malformed THEN "invalid_json" ELSE "wrong_shape",
            outcome |-> IF result = Raised THEN "raised" ELSE "fallback" ]}

\* The status a judgment names, when it names one.
JudgedStatus(judgment) ==
    IF judgment = Malformed THEN "none" ELSE judgment.status

\* _run_session begins, for a new session or with --resume: the record is
\* loaded; a session without tasks is decomposed first.
RunSession ==
    /\ tpc \in {"off", "done", "raised"}
    /\ \E a \in BOOLEAN : auto' = a
    /\ session' = load_session(disk)
    /\ loadedPhase' = Phases(session')
    /\ opLog' = {}
    /\ parseLog' = {}
    /\ tpc' = IF session'.tasks = <<>> THEN "decompose" ELSE "loop"
    /\ UNCHANGED <<disk, findingsLog, decided, challengeLog>>
    /\ UNCHANGED <<varsR, varsF>>

\* _run_session without --auto: the same, and every prompt is shown.
RunAttended ==
    /\ tpc \in {"off", "done", "raised"}
    /\ auto' = FALSE
    /\ session' = load_session(disk)
    /\ loadedPhase' = Phases(session')
    /\ opLog' = {}
    /\ parseLog' = {}
    /\ tpc' = IF session'.tasks = <<>> THEN "decompose" ELSE "loop"
    /\ UNCHANGED <<disk, findingsLog, decided, challengeLog>>
    /\ UNCHANGED <<varsR, varsF>>

\* _run_session with --auto: the same, and no prompt is shown.
RunUnattended ==
    /\ tpc \in {"off", "done", "raised"}
    /\ auto' = TRUE
    /\ session' = load_session(disk)
    /\ loadedPhase' = Phases(session')
    /\ opLog' = {}
    /\ parseLog' = {}
    /\ tpc' = IF session'.tasks = <<>> THEN "decompose" ELSE "loop"
    /\ UNCHANGED <<disk, findingsLog, decided, challengeLog>>
    /\ UNCHANGED <<varsR, varsF>>

\* engine.decompose_goal: the tasks are set and the session is saved.
DecomposeGoal ==
    /\ tpc = "decompose"
    /\ \E tasks \in DecomposedTasks : session' = [ session EXCEPT !.tasks = tasks ]
    /\ disk' = save_session(session')
    /\ tpc' = "loop"
    /\ UNCHANGED <<findingsLog, auto, opLog, parseLog, loadedPhase, decided, challengeLog>>
    /\ UNCHANGED <<varsR, varsF>>

\* run_phase_a_b up to the call of the model, which is awaited.
PhaseA ==
    /\ tpc = "loop"
    /\ LET t == current_task(session)
       IN  /\ t # 0
           /\ runs_phase_a_b(session.tasks[t])
           /\ \E anchor_output \in {"None", "anchored_topic"} :
                 session' = run_phase_a(session, t, anchor_output)
           /\ opLog' = opLog \cup {<<t, "A">>}
    /\ tpc' = "generate"
    /\ parseLog' = {}
    /\ decided' = {}
    /\ UNCHANGED challengeLog
    /\ UNCHANGED <<disk, findingsLog, auto, loadedPhase>>
    /\ UNCHANGED <<varsR, varsF>>

\* The model has answered: run_phase_a_b sets the output and saves.
PhaseB ==
    /\ tpc = "generate"
    /\ LET t == current_task(session)
       IN  /\ session' = run_phase_b(session, t)
           /\ opLog' = opLog \cup {<<t, "B">>}
    /\ disk' = save_session(session')
    /\ tpc' = "loop"
    /\ parseLog' = {}
    /\ decided' = {}
    /\ UNCHANGED challengeLog
    /\ UNCHANGED <<findingsLog, auto, loadedPhase>>
    /\ UNCHANGED <<varsR, varsF>>

\* Phase C for a GENERATED task; then checkpoint 1 unless --auto. An
\* exception of the critique or the council call ends the process: nothing
\* on its way out of _run_session catches it.
PhaseC ==
    /\ tpc = "loop"
    /\ LET t == current_task(session)
       IN  /\ t # 0
           /\ session.tasks[t].phase = "GENERATED"
           /\ \E response \in CritiqueResponses, council \in CouncilResponses :
                LET result == critique(session.tasks[t].topic,
                                       resolve_domain(session), response)
                    asked == result # Raised /\ result.should_council
                    after == run_phase_c(session, t, response, council)
                IN  /\ asked \/ council = Malformed
                    /\ parseLog' =
                          ParseEntry(t, "critique", response, result)
                          \cup (IF asked
                                THEN ParseEntry(t, "council", council, run_council(council))
                                ELSE {})
                    /\ IF after = Raised
                       THEN /\ session' = None
                            /\ disk' = disk
                            /\ tpc' = "raised"
                       ELSE /\ session' = after
                            /\ disk' = save_session(after)
                            /\ tpc' = IF auto THEN "loop" ELSE "checkpoint1"
           /\ opLog' = opLog \cup {<<t, "C">>}
    /\ decided' = {}
    /\ UNCHANGED challengeLog
    /\ UNCHANGED <<findingsLog, auto, loadedPhase>>
    /\ UNCHANGED <<varsR, varsF>>

\* Checkpoint 1: the user's challenge, when one is typed, is appended.
Checkpoint1 ==
    /\ tpc = "checkpoint1"
    /\ \E user_input \in {"", ChallengeTexts[current_task(session)]} :
          /\ session' = IF user_input # ""
                        THEN [ session EXCEPT
                                 !.user_challenges = Append(session.user_challenges, user_input) ]
                        ELSE session
          /\ challengeLog' = [ challengeLog EXCEPT !.supplied = @ \cup ({user_input} \ {""}) ]
    /\ tpc' = "loop"
    /\ decided' = decided \cup {"checkpoint1"}
    /\ UNCHANGED <<disk, findingsLog, auto, opLog, parseLog, loadedPhase>>
    /\ UNCHANGED <<varsR, varsF>>

\* Phase D for a CRITIQUED task; then checkpoint 2 unless --auto. An
\* exception of verify_task ends the process.
PhaseD ==
    /\ tpc = "loop"
    /\ LET t == current_task(session)
       IN  /\ t # 0
           /\ session.tasks[t].phase = "CRITIQUED"
           /\ \E response \in FactCheckResponses :
                LET result == verify_task(response.extraction, response.judgment)
                    after == run_phase_d(session, t, response)
                    judged == result # Raised /\ result.verified_claims # <<>>
                IN  /\ parseLog' =
                          ParseEntry(t, "extraction", response.extraction, result)
                          \cup (IF judged /\ verify_single_claim(SearchFound, response.judgment).status
                                                # JudgedStatus(response.judgment)
                                THEN {[task |-> t, call |-> "judgment",
                                       kind |-> IF response.judgment = Malformed
                                                THEN "invalid_json" ELSE "wrong_shape",
                                       outcome |-> "fallback"]}
                                ELSE {})
                    /\ IF after = Raised
                       THEN /\ session' = None
                            /\ disk' = disk
                            /\ tpc' = "raised"
                       ELSE /\ session' = after
                            /\ disk' = save_session(after)
                            /\ tpc' = IF auto THEN "loop" ELSE "checkpoint2"
           /\ opLog' = opLog \cup {<<t, "D">>}
    /\ decided' = {}
    /\ UNCHANGED challengeLog
    /\ UNCHANGED <<findingsLog, auto, loadedPhase>>
    /\ UNCHANGED <<varsR, varsF>>

\* Checkpoint 2: accepted, or declined with or without a text to change.
Checkpoint2 ==
    /\ tpc = "checkpoint2"
    /\ \E proceed \in BOOLEAN, edit_input \in {"", ChallengeTexts[current_task(session)]} :
          /\ session' = IF ~proceed /\ edit_input # ""
                        THEN [ session EXCEPT
                                 !.user_challenges = Append(session.user_challenges, edit_input) ]
                        ELSE session
          /\ challengeLog' = [ challengeLog EXCEPT
                                 !.supplied = @ \cup (IF proceed THEN {} ELSE {edit_input} \ {""}) ]
    /\ tpc' = "loop"
    /\ decided' = decided \cup {"checkpoint2"}
    /\ UNCHANGED <<disk, findingsLog, auto, opLog, parseLog, loadedPhase>>
    /\ UNCHANGED <<varsR, varsF>>

\* Phase E for a VERIFIED task: synthesized, appended to findings.md, saved.
PhaseE ==
    /\ tpc = "loop"
    /\ LET t == current_task(session)
       IN  /\ t # 0
           /\ session.tasks[t].phase = "VERIFIED"
           /\ \E response \in SynthesisResponses :
                /\ session' = run_phase_e(session, t, response)
                /\ parseLog' =
                      (IF response.marker /\ ~IsFloat(response.confidence)
                            THEN {[task |-> t, call |-> "synthesis",
                                   kind |-> "wrong_shape", outcome |-> "fallback"]}
                            ELSE {})
           /\ findingsLog' = Append(findingsLog, session.tasks[t].id)
           /\ opLog' = opLog \cup {<<t, "E">>}
    /\ disk' = save_session(session')
    /\ tpc' = "loop"
    /\ decided' = {}
    /\ challengeLog' = [ supplied |-> {},
                         passed |-> user_challenges_text(session, <<>>) ]
    /\ UNCHANGED <<auto, loadedPhase>>
    /\ UNCHANGED <<varsR, varsF>>

\* The process is ended inside run_phase_e between append_finding and
\* save_session (a second Ctrl-C, a kill, or save_session raising): the entry
\* is in findings.md, the record still has the task VERIFIED, and the
\* objects of the process are lost.
PhaseEKilled ==
    /\ tpc = "loop"
    /\ LET t == current_task(session)
       IN  /\ t # 0
           /\ session.tasks[t].phase = "VERIFIED"
           /\ Len(findingsLog)
                < MaxKills + Cardinality({i \in 1..Len(session.tasks) :
                                            session.tasks[i].phase = "SYNTHESIZED"})
           /\ findingsLog' = Append(findingsLog, session.tasks[t].id)
           /\ opLog' = opLog \cup {<<t, "E">>}
    /\ session' = None
    /\ tpc' = "off"
    /\ decided' = {}
    /\ challengeLog' = [ supplied |-> {},
                         passed |-> user_challenges_text(session, <<>>) ]
    /\ UNCHANGED <<disk, auto, parseLog, loadedPhase>>
    /\ UNCHANGED <<varsR, varsF>>

\* current_task() is None: the loop ends and the process with it.
AllComplete ==
    /\ tpc = "loop"
    /\ current_task(session) = 0
    /\ session' = None
    /\ tpc' = "done"
    /\ UNCHANGED <<disk, findingsLog, auto, opLog, parseLog, loadedPhase, decided, challengeLog>>
    /\ UNCHANGED <<varsR, varsF>>

\* The process ends while it awaits a call or a prompt (Ctrl-C, or the call
\* raises: nothing in _run_session catches either); its objects are lost.
Interrupted ==
    /\ tpc \in {"decompose", "loop", "generate", "checkpoint1", "checkpoint2"}
    /\ session' = None
    /\ tpc' = "off"
    /\ UNCHANGED <<disk, findingsLog, auto, opLog, parseLog, loadedPhase, decided, challengeLog>>
    /\ UNCHANGED <<varsR, varsF>>

NextT ==
    \/ RunSession
    \/ DecomposeGoal
    \/ PhaseA
    \/ PhaseB
    \/ PhaseC
    \/ Checkpoint1
    \/ PhaseD
    \/ Checkpoint2
    \/ PhaseE
    \/ AllComplete
    \/ Interrupted

InitThink == IdleR /\ InitT /\ IdleF

\* A thinking session under its driver, over any number of processes.
ThinkSpec == InitThink /\ [][NextT]_vars

NextAttended ==
    \/ RunAttended
    \/ DecomposeGoal
    \/ PhaseA
    \/ PhaseB
    \/ PhaseC
    \/ Checkpoint1
    \/ PhaseD
    \/ Checkpoint2
    \/ PhaseE
    \/ AllComplete
    \/ Interrupted

InitAttended == IdleR /\ InitT /\ IdleF

NextKilled ==
    \/ RunSession
    \/ DecomposeGoal
    \/ PhaseA
    \/ PhaseB
    \/ PhaseC
    \/ Checkpoint1
    \/ PhaseD
    \/ Checkpoint2
    \/ PhaseE
    \/ PhaseEKilled
    \/ AllComplete
    \/ Interrupted

InitKilled == IdleR /\ InitT /\ IdleF

\* A thinking session whose process may also be ended inside run_phase_e.
KilledSpec == InitKilled /\ [][NextKilled]_vars

\* decompose_goal has saved a session of MaxQueue tasks, all PENDING, and
\* its process has ended.
InitDecomposed ==
    /\ IdleR /\ IdleF
    /\ session = None
    /\ disk = save_session([ ThinkingSession EXCEPT
                   !.tasks = [i \in 1..MaxQueue |-> ThinkingTask(TaskIds[i])] ])
    /\ findingsLog = <<>>
    /\ tpc = "off"
    /\ auto = FALSE
    /\ opLog = {}
    /\ parseLog = {}
    /\ loadedPhase = <<>>
    /\ decided = {}
    /\ challengeLog = [supplied |-> {}, passed |-> <<>>]

NextUnattended ==
    \/ RunUnattended
    \/ PhaseA
    \/ PhaseB
    \/ PhaseC
    \/ PhaseD
    \/ PhaseE
    \/ AllComplete
    \/ Interrupted

\* A decomposed session of several tasks, every process of which runs with
\* --auto, so that no checkpoint is shown.
UnattendedSpec == InitDecomposed /\ [][NextUnattended]_vars

\* A thinking session every process of which runs without --auto.
AttendedSpec == InitAttended /\ [][NextAttended]_vars

\* ------------------------------------------------- single calls: the actions

\* The other variables of a call of one function: no job and no session run.
NoRun == IdleR /\ IdleT

\* VerifierAgent.verify or find_conflicts is about to be called with a list
\* of findings.
InitVerify ==
    /\ NoRun
    /\ fn \in {"verify", "find_conflicts"}
    /\ input \in FindingLists
    /\ output = <<>>
    /\ returned = FALSE

\* VerifierAgent.verify returns.
CallVerify ==
    /\ fn = "verify" /\ ~returned
    /\ output' = verify(input)
    /\ returned' = TRUE
    /\ UNCHANGED <<fn, input, varsR, varsT>>

\* VerifierAgent.find_conflicts returns.
CallFindConflicts ==
    /\ fn = "find_conflicts" /\ ~returned
    /\ output' = find_conflicts(input)
    /\ returned' = TRUE
    /\ UNCHANGED <<fn, input, varsR, varsT>>

NextVerify ==
    \/ CallVerify
    \/ CallFindConflicts

\* One call of the verifier.
VerifySpec == InitVerify /\ [][NextVerify]_vars

\* PlannerAgent.plan has built the questions from the answer; deduplication
\* and sorting are still to come.
InitPlan ==
    /\ NoRun
    /\ fn = "plan"
    /\ input \in PlanInputs
    /\ output = [phase |-> "parsed"]
    /\ returned = FALSE

\* questions = self._deduplicate_questions(questions), and _sort_questions
\* begins with what is left.
Deduplicate ==
    /\ fn = "plan" /\ output.phase = "parsed"
    /\ output' = Traversal(deduplicate_questions(input))
    /\ UNCHANGED <<fn, input, returned, varsR, varsT>>

\* The loop `for q in questions: visit(q.id)` calls visit for the next id,
\* with a path of its own.
VisitNext ==
    /\ fn = "plan" /\ output.phase = "sort"
    /\ output.stack = <<>> /\ output.todo # <<>>
    /\ output' = visit([ output EXCEPT !.todo = Tail(output.todo), !.path = {} ],
                       Head(output.todo))
    /\ UNCHANGED <<fn, input, returned, varsR, varsT>>

\* The innermost call of visit calls visit for one more of its dependencies;
\* beyond the depth Python allows the call raises RecursionError.
VisitDependency ==
    /\ fn = "plan" /\ output.phase = "sort"
    /\ output.stack # <<>>
    /\ LET top == Len(output.stack)
       IN  /\ output.stack[top].dependencies # {}
           /\ IF top >= RecursionLimit
              THEN output' = [ output EXCEPT !.phase = "raised" ]
              ELSE \E dep_id \in output.stack[top].dependencies :
                      output' = visit(
                          [ output EXCEPT !.stack[top].dependencies = @ \ {dep_id} ],
                          dep_id)
    /\ UNCHANGED <<fn, input, returned, varsR, varsT>>

\* The innermost call of visit has visited its dependencies and ends.
Leave ==
    /\ fn = "plan" /\ output.phase = "sort"
    /\ output.stack # <<>>
    /\ output.stack[Len(output.stack)].dependencies = {}
    /\ output' = leave(output)
    /\ UNCHANGED <<fn, input, returned, varsR, varsT>>

\* Every id was visited: result is sorted by its key and returned as the plan.
FinalSort ==
    /\ fn = "plan" /\ output.phase = "sort"
    /\ output.stack = <<>> /\ output.todo = <<>>
    /\ output' = [phase |-> "returned", plan |-> SortByKey(output.result)]
    /\ returned' = TRUE
    /\ UNCHANGED <<fn, input, varsR, varsT>>

NextPlan ==
    \/ Deduplicate
    \/ VisitNext
    \/ VisitDependency
    \/ Leave
    \/ FinalSort

\* The planner's own steps on the questions of one answer; every step that
\* can be taken is taken.
PlanSpec == InitPlan /\ [][NextPlan]_vars /\ WF_vars(NextPlan)

\* FactCheckAgent._verify_single_claim is about to be called for a claim:
\* what its search and its judgment call will come to is the input.
InitClaim ==
    /\ NoRun
    /\ fn = "_verify_single_claim"
    /\ input \in { [search |-> s, judgment |-> j] : s \in SearchOutcomes, j \in JudgmentAnswers }
    /\ output = <<>>
    /\ returned = FALSE

\* FactCheckAgent._verify_single_claim returns.
CallVerifySingleClaim ==
    /\ fn = "_verify_single_claim" /\ ~returned
    /\ output' = verify_single_claim(input.search, input.judgment)
    /\ returned' = TRUE
    /\ UNCHANGED <<fn, input, varsR, varsT>>

\* One check of one claim.
ClaimSpec == InitClaim /\ [][CallVerifySingleClaim]_vars

\* The sessions run_phase_c is called with: one GENERATED task, whose topic
\* may hold a keyword, in a session of any goal and any --domain; and the
\* answers of the critique call and of the council call.
PhaseCInputs ==
    { [ session |->
            run_phase_b(
                run_phase_a(
                    [ ThinkingSession EXCEPT
                        !.goal = goal, !.domain = name,
                        !.tasks = <<[ ThinkingTask("t1") EXCEPT !.topic = topic ]>> ],
                    1, "None"),
                1),
        response |-> response,
        council |-> council ] :
      goal \in {GoalPlain, GoalCompare},
      name \in {"auto", "tech-eval", "unknown"},
      topic \in {TopicPlain, TopicCompare, TopicVs},
      response \in CritiqueResponses,
      council \in CouncilResponses }

\* run_phase_c is about to be called for the GENERATED task of a session.
InitPhaseC ==
    /\ NoRun
    /\ fn = "run_phase_c"
    /\ input \in PhaseCInputs
    /\ output = <<>>
    /\ returned = FALSE

\* run_phase_c: the session it leaves (or the exception), and whether
\* run_council was called on the way.
CallRunPhaseC ==
    /\ fn = "run_phase_c" /\ ~returned
    /\ LET task == input.session.tasks[1]
           result == critique(task.topic, resolve_domain(input.session), input.response)
       IN  output' = [ session |-> run_phase_c(input.session, 1, input.response, input.council),
                       council_called |-> result # Raised /\ result.should_council ]
    /\ returned' = TRUE
    /\ UNCHANGED <<fn, input, varsR, varsT>>

\* One call of run_phase_c.
PhaseCSpec == InitPhaseC /\ [][CallRunPhaseC]_vars

\* --------------------------------------------------- deepsearch: the properties

\* C1: research_node calls the producer for a question only when every id
\* of the question's dependencies is already among the completed ids.
C1_DispatchOnlyWhenDepsCompleted ==
    \A i \in 1..Len(dispatchLog) :
        dispatchLog[i].dependencies \subseteq dispatchLog[i].completed

\* Scenario 1: C, which depends on A and B, has been dispatched.
C1_Witness ==
    \E i \in 1..Len(dispatchLog) :
        /\ dispatchLog[i].id = "C"
        /\ dispatchLog[i].dependencies = {"A", "B"}

\* C2: reflect_node runs at most max_iterations times in one run, whatever
\* the reflector answers.
C2_ReflectAtMostBudget ==
    reflectCount <= g.max_iterations

\* A completed run that used its whole budget of two although the last
\* reflection said incomplete and proposed a question.
C2_Witness ==
    /\ pc = "completed"
    /\ g.max_iterations = 2
    /\ reflectCount = g.max_iterations
    /\ ~g.reflection.is_complete
    /\ g.reflection.new_questions # <<>>

\* C3: iteration never exceeds max_iterations, in the workflow, in the
\* driver's copy and in the stored row, and no step decreases it.
C3_IterationBoundedMonotone ==
    /\ [](/\ g.iteration <= g.max_iterations
          /\ state.iteration <= state.max_iterations
          /\ db.iteration <= db.max_iterations)
    /\ [][/\ g'.iteration >= g.iteration
          /\ state'.iteration >= state.iteration
          /\ db'.iteration >= db.iteration]_vars

\* The budget is reached while questions of the plan are still unexamined.
C3_Witness ==
    /\ g.max_iterations > 0
    /\ g.iteration = g.max_iterations
    /\ g.current_question_index < Len(g.plan)
    /\ db.iteration = g.iteration

C6_SaveLoadKeepsPlanIterationStatus ==
    /\ LET loaded == row_to_state(save_state(db, state))
       IN  /\ Len(loaded.plan) = Len(state.plan)
           /\ loaded.iteration = state.iteration
           /\ loaded.status = state.status
    /\ LET stored == row_to_state(db)
       IN  /\ Len(stored.plan) = Len(state.plan)
           /\ stored.iteration = state.iteration
           /\ stored.status = state.status

\* A paused job with a plan of three questions and one iteration is stored.
C6_Witness ==
    /\ pc = "paused"
    /\ Len(state.plan) = 3
    /\ state.iteration = 1
    /\ db.status = "paused"

\* C7: every field of the state, the completed ids among them, is the same
\* after save_state and load_state.
C7_EveryFieldRoundTrips ==
    row_to_state(save_state(db, state)) = state

\* C8: a run of the workflow on the state loaded from the store calls the
\* producer for no question that was dispatched before the save.
C8_NoRedispatchAfterReload ==
    \A i \in 1..Len(dispatchLog) : dispatchLog[i].id \notin doneBefore

\* C9: the row of a job paused by the interrupt flag has status PAUSED and
\* the cursor, iteration, plan and findings of every step that completed.
C9_PausedRowHoldsEveryCompletedStep ==
    pc = "paused" =>
        /\ db.status = ResearchStatusValue("PAUSED")
        /\ LET stored == row_to_state(db)
           IN  /\ stored.current_question_index = g.current_question_index
               /\ stored.iteration = g.iteration
               /\ stored.plan = g.plan
               /\ stored.findings = g.findings

\* C13: every planner answer that does not parse, be it no JSON or JSON of
\* the wrong shape, leaves a plan of exactly one question, which asks for the
\* topic and depends on nothing; the planner never raises.
C13_MalformedPlanGivesFallbackPlan ==
    \A entry \in answerLog :
        entry.call = "planner" =>
            /\ entry.outcome = "fallback"
            /\ Len(g.plan) = 1
            /\ g.plan[1].question = FallbackQuestion.question
            /\ g.plan[1].dependencies = {}

\* C14: a reflection answer that ReflectionResult refuses is recovered inside
\* reflect: nothing is raised out of reflect_node and the job is not FAILED.
C14_ReflectionSchemaFailureRecovered ==
    \A entry \in answerLog :
        (entry.call = "reflector" /\ entry.kind = "wrong_shape") =>
            /\ entry.outcome = "fallback"
            /\ state.status # "FAILED"
            /\ pc # "failed"

\* C15: when a workflow step raises, the stored row is FAILED and holds the
\* error text, and its plan, cursor, findings and iteration are those the
\* last completed step left.
C15_FailedRowHoldsLastCompletedStep ==
    pc = "failed" =>
        /\ db.status = ResearchStatusValue("FAILED")
        /\ db.error = "error"
        /\ row_to_state(db).plan = g.plan
        /\ row_to_state(db).current_question_index = g.current_question_index
        /\ row_to_state(db).findings = g.findings
        /\ row_to_state(db).iteration = g.iteration

\* A step raises after a question was researched and a reflection was made.
C15_Witness ==
    /\ pc = "failed"
    /\ g.iteration >= 1
    /\ g.current_question_index >= 1
    /\ Len(g.findings) >= 1
    /\ Len(g.plan) >= 2

\* C16: reflect_node runs only in states where the cursor has reached the
\* end of the plan, that is after a pass over the whole current plan.
C16_ReflectOnlyAtEndOfPlan ==
    (pc = "stream" /\ node = "reflect") =>
        g.current_question_index >= Len(g.plan)

\* C17: the edge after research decides in this order: the budget used up
\* gives verify; else questions left in the plan give continue (reflect);
\* else a reflection that says incomplete gives continue; else verify.
C17_EdgePrecedence ==
    node \in {"reflect", "verify"} =>
        node = IF g.iteration >= g.max_iterations THEN "verify"
               ELSE IF g.current_question_index < Len(g.plan) THEN "reflect"
               ELSE IF g.reflection # None /\ ~g.reflection.is_complete THEN "reflect"
               ELSE "verify"

\* The plan is exhausted, the budget is not, and the reflection says
\* incomplete: the third test sends the run to reflect.
C17_Witness ==
    /\ node = "reflect"
    /\ g.iteration < g.max_iterations
    /\ g.current_question_index >= Len(g.plan)
    /\ g.reflection # None

\* C18: with a budget of one iteration and a reflector that says incomplete
\* whenever it is asked, a run that ends has made exactly one reflection,
\* whatever its plan.
C18_BudgetOneGivesOneReflection ==
    ( /\ node = "END"
      /\ g.max_iterations = 1
      /\ (g.reflection = None \/ ~g.reflection.is_complete) )
        => reflectCount = 1

\* C19: a job that ended with a question of its plan never dispatched does
\* not show what a job that dispatched its whole plan shows: status COMPLETED
\* with a count of n of n questions.
C19_PartialCoverageIsVisible ==
    (pc = "completed" /\ Len(dispatchLog) < Len(g.plan)) =>
        LET shown == format_progress(row_to_state(db))
        IN  ~( /\ shown.status = "COMPLETED"
               /\ shown.questions = <<Len(g.plan), Len(g.plan)>> )

\* The question at place i of the plan was passed over by the cursor
\* without a call of the producer, and every one of its dependencies is now
\* among the completed ids.
DeferredReady(i) ==
    /\ i <= Len(g.plan)
    /\ i <= g.current_question_index
    /\ g.plan[i].id \notin {dispatchLog[k].id : k \in 1..Len(dispatchLog)}
    /\ deps_satisfied(g.plan[i], g.completed_question_ids)

\* The producer was called for the question at place i.
Dispatched(i) ==
    /\ i <= Len(g.plan)
    /\ g.plan[i].id \in {dispatchLog[k].id : k \in 1..Len(dispatchLog)}

\* C20: a question skipped for unmet dependencies is deferred, not blocked:
\* when research_node is about to run while the budget remains and every
\* dependency of the skipped question is completed, the question is
\* dispatched by this or a later pass.
C20_DeferredQuestionIsDispatched ==
    \A i \in 1..(MaxPlan + MaxNew) :
        ( /\ pc = "stream" /\ node = "research"
          /\ g.iteration < g.max_iterations
          /\ DeferredReady(i) )
            ~> Dispatched(i)

C34_PlanOnlyGrowsByReflection ==
    [][ (node # "plan" /\ node' # "plan") =>
          /\ Len(g'.plan) >= Len(g.plan)
          /\ SubSeq(g'.plan, 1, Len(g.plan)) = g.plan
          /\ g'.plan # g.plan => (pc = "stream" /\ node = "reflect")
      ]_vars

\* reflect_node has appended the question N to a plan of two, and the run
\* has gone on to research.
C34_Witness ==
    /\ pc = "handle" /\ node = "research"
    /\ Len(g.plan) = 3
    /\ g.plan[3].id = "N"
    /\ g.iteration >= 1

\* C35: within one run of the workflow the cursor never decreases, every
\* run of research_node on a place of the plan moves the cursor past it, and
\* researcher.research is called for each place of the plan at most once.
C35_CursorMonotoneNoRedispatch ==
    /\ [][ (node # "plan" /\ node' # "plan") =>
              /\ g'.current_question_index >= g.current_question_index
              /\ (pc = "stream" /\ node = "research" /\ pc' = "handle"
                     /\ g.current_question_index < Len(g.plan))
                    => g'.current_question_index = g.current_question_index + 1
          ]_vars
    /\ [](\A i, k \in 1..Len(dispatchLog) :
              i < k => dispatchLog[i].index < dispatchLog[k].index)

\* The run has researched the first and the third place of its plan and
\* passed over the second.
C35_Witness ==
    /\ Len(dispatchLog) = 2
    /\ dispatchLog[1].index = 0
    /\ dispatchLog[2].index = 2
    /\ g.current_question_index = 3

\* C36: in one run of the workflow research_node examines at most
\* max_iterations + 1 places of the plan: the cursor, which counts the places
\* examined, is never more than one ahead of the count of reflections, and
\* that count never passes max_iterations; so a run that ends with a plan
\* longer than max_iterations + 1 leaves places of it never examined.
C36_ExaminedWithinBudget ==
    /\ g.current_question_index <= g.iteration + 1
    /\ g.iteration <= g.max_iterations
    /\ g.current_question_index <= g.max_iterations + 1
    /\ (pc = "completed" /\ Len(g.plan) > g.max_iterations + 1)
          => g.current_question_index < Len(g.plan)

\* A run with max_iterations = 1 and a plan of three has ended with two
\* places examined and the third never reached.
C36_Witness ==
    /\ pc = "completed"
    /\ g.max_iterations = 1
    /\ Len(g.plan) = 3
    /\ g.current_question_index = 2
    /\ Len(dispatchLog) = 2

\* C21: verify marks a finding confirmed exactly when another finding about
\* the same question, from a different source, has similar content, and
\* unverified otherwise, whatever the list.
C21_ConfirmedIffCorroborated ==
    (fn = "verify" /\ returned) =>
        /\ Len(output) = Len(input)
        /\ \A i \in 1..Len(output) :
              LET f == output[i].finding
                  corroborated ==
                      \E k \in 1..Len(input) :
                          /\ input[k].question = f.question
                          /\ input[k].source # f.source
                          /\ content_similar(f.content, input[k].content)
              IN  output[i].verification_status =
                      IF corroborated THEN "confirmed" ELSE "unverified"

\* C23: no VerifiedFinding that verify returns is disputed or names a
\* conflicting source, and find_conflicts returns the empty list.
C23_NoContradictionDetection ==
    /\ (fn = "verify" /\ returned) =>
          \A i \in 1..Len(output) :
              /\ output[i].verification_status \in {"confirmed", "unverified"}
              /\ output[i].conflicting_sources = <<>>
    /\ (fn = "find_conflicts" /\ returned) => output = <<>>

\* verify has returned for a list in which two sources say different things
\* about one question, and one of the two is confirmed by a third finding.
C23_Witness ==
    /\ fn = "verify" /\ returned
    /\ \E i, k \in 1..Len(output) :
          /\ output[i].verification_status = "confirmed"
          /\ output[k].finding.question = output[i].finding.question
          /\ output[k].finding.source # output[i].finding.source
          /\ ~content_similar(output[k].finding.content, output[i].finding.content)

\* The ids of the questions of a plan.
PlanIds(questions) == {questions[i].id : i \in 1..Len(questions)}

\* The ids reached from the ids of `from` over at most n dependencies that
\* name questions of the plan.
RECURSIVE ReachedIds(_, _, _)
ReachedIds(questions, from, n) ==
    IF n = 0 THEN from
    ELSE ReachedIds(questions,
             from \cup { d \in PlanIds(questions) :
                           \E i \in 1..Len(questions) :
                               questions[i].id \in from /\ d \in questions[i].dependencies },
             n - 1)

\* A question of the plan depends, over questions of the plan, on itself.
Cyclic(questions) ==
    \E i \in 1..Len(questions) :
        questions[i].id \in
            ReachedIds(questions, questions[i].dependencies \cap PlanIds(questions),
                       Len(questions))

\* C24: in the plan the planner returns, after deduplication and sorting,
\* every dependency id of every question is the id of a question of the plan.
C24_NoDanglingDependency ==
    (fn = "plan" /\ returned) =>
        \A i \in 1..Len(output.plan) :
            output.plan[i].dependencies \subseteq PlanIds(output.plan)

\* C25: at every point of a job the dependencies among the questions of the
\* current plan have no cycle, as the planner built it and after every
\* append by reflect_node.
C25_PlanIsAcyclic ==
    ~Cyclic(g.plan)

\* C26: _sort_questions terminates on every input, cycles, self-references
\* and absent ids included, and its traversal never enters a question that
\* is still in progress.
C26_SortTerminatesWithoutReentry ==
    /\ <>(fn = "plan" /\ returned)
    /\ [](output.phase = "sort" =>
            \A i, k \in 1..Len(output.stack) :
                i # k => output.stack[i].id # output.stack[k].id)

\* The sort has returned for A that depends on B and B that depends on A and
\* on itself, together with a question that depends on an absent id.
C26_Witness ==
    /\ fn = "plan" /\ returned
    /\ Len(input) = 3
    /\ input[1].id = "A" /\ input[1].dependencies = {"B"}
    /\ input[2].id = "B" /\ input[2].dependencies = {"A", "B"}
    /\ Len(output.plan) = 3

\* C27: the plan the planner returns respects the dependencies: when they
\* have no cycle, every question stands after each of its dependencies that
\* is in the plan, whatever the categories, orders and priorities.
C27_PlanRespectsDependencies ==
    (fn = "plan" /\ returned /\ ~Cyclic(output.plan)) =>
        \A i, k \in 1..Len(output.plan) :
            output.plan[k].id \in output.plan[i].dependencies => k < i

\* C28: of two questions whose texts differ by case or punctuation only, the
\* plan holds exactly one, the first of the input.
C28_CaseAndPunctuationCollapse ==
    (fn = "plan" /\ returned) =>
        LET same == {i \in 1..Len(input) : input[i].question \in {TextX, TextXPlain}}
            kept == {k \in 1..Len(output.plan) :
                        output.plan[k].question \in {TextX, TextXPlain}}
        IN  (\E i, j \in same : input[i].question # input[j].question) =>
                /\ Cardinality(kept) = 1
                /\ \A k \in kept :
                      output.plan[k] = input[CHOOSE i \in same : \A j \in same : i <= j]

\* The plan is returned for "What is X?" followed by "what is x" and a third
\* question: the first and the third are in it.
C28_Witness ==
    /\ fn = "plan" /\ returned
    /\ Len(input) = 3
    /\ input[1].question = TextX
    /\ input[2].question = TextXPlain
    /\ input[3].question = TextOther
    /\ Len(output.plan) = 2

\* ------------------------------------------------ deep_thinking: the properties

\* C22: a claim whose search finds nothing, or whose search or judgment call
\* raises, is recorded as unverified with a note that says why, and the
\* check of the claim returns.
C22_FailedCheckIsUnverified ==
    (fn = "_verify_single_claim" /\ returned) =>
        /\ output # Raised
        /\ ( \/ input.search = Raised
             \/ input.judgment = Raised
             \/ (input.search # Raised /\ input.search.results = 0) )
              => /\ output.status = "unverified"
                 /\ output.notes \in {"No search results found",
                                      "Verification failed due to error"}

\* The search found nothing for a claim the judgment would have confirmed.
C22_Witness ==
    /\ fn = "_verify_single_claim" /\ returned
    /\ input.search = [results |-> 0]
    /\ input.judgment = [status |-> "confirmed", notes |-> "note"]
    /\ output.status = "unverified"


\* The phase of each task: the running process's object, or the record when
\* no process runs.
TaskPhases ==
    IF session # None THEN Phases(session) ELSE Phases(load_session(disk))

\* C5: over the life of a session, interruption and resume included, the
\* phase of no task ever moves back in the order PENDING < ANCHORED <
\* GENERATED < CRITIQUED < VERIFIED < SYNTHESIZED.
C5_PhaseNeverDecreases ==
    [][\A i \in (DOMAIN TaskPhases) \cap (DOMAIN TaskPhases') :
          PhaseRank(TaskPhases'[i]) >= PhaseRank(TaskPhases[i])]_vars

\* The rank a phase operation records when it completes.
OpRank(op) ==
    CASE op = "A" -> PhaseRank("ANCHORED")
      [] op = "B" -> PhaseRank("GENERATED")
      [] op = "C" -> PhaseRank("CRITIQUED")
      [] op = "D" -> PhaseRank("VERIFIED")
      [] op = "E" -> PhaseRank("SYNTHESIZED")

\* C10: a process that resumed a session runs no phase operation for a task
\* whose loaded phase is that operation's phase or a later one; for a task
\* loaded as SYNTHESIZED it runs none at all.
C10_NoCompletedPhaseRunAgain ==
    \A entry \in opLog :
        entry[1] <= Len(loadedPhase) =>
            PhaseRank(loadedPhase[entry[1]]) < OpRank(entry[2])

\* A resumed process found its task CRITIQUED, has run phase D and phase E
\* for it and nothing else, and has ended with every task synthesized.
C10_Witness ==
    /\ loadedPhase = <<"CRITIQUED">>
    /\ opLog = {<<1, "D">>, <<1, "E">>}
    /\ tpc = "done"

\* The task as the running process holds it, or as the record has it when no
\* process runs.
TaskNow(i) ==
    IF session # None THEN session.tasks[i] ELSE load_session(disk).tasks[i]

\* The rank of the phase the operation around a call records when it completes.
CallRank(call) ==
    CASE call \in {"critique", "council"} -> PhaseRank("CRITIQUED")
      [] call \in {"extraction", "judgment"} -> PhaseRank("VERIFIED")
      [] call = "synthesis" -> PhaseRank("SYNTHESIZED")

\* C11: every answer a phase operation could not parse, be it no JSON or JSON
\* of the wrong shape, was replaced by the fallback: no exception left the
\* operation and the task reached the operation's phase.
C11_ParseFailureFallsBack ==
    \A entry \in parseLog :
        /\ entry.outcome = "fallback"
        /\ PhaseRank(TaskNow(entry.task).phase) >= CallRank(entry.call)

\* C12: a critique answer that is no JSON leaves the task CRITIQUED with
\* exactly one critique point, of severity low, whose suggestion is the
\* manual-review text.
C12_UnparseableCritiqueGivesFallback ==
    \A entry \in parseLog :
        (entry.call = "critique" /\ entry.kind = "invalid_json") =>
            /\ entry.outcome = "fallback"
            /\ TaskNow(entry.task).phase = "CRITIQUED"
            /\ Len(TaskNow(entry.task).critique_points) = 1
            /\ TaskNow(entry.task).critique_points[1].severity = "low"
            /\ TaskNow(entry.task).critique_points[1].suggestion = "Manual review recommended"

\* Phase C has just run in this process on a critique answer that is no JSON.
C12_Witness ==
    /\ session # None
    /\ tpc \in {"loop", "checkpoint1"}
    /\ \E entry \in parseLog :
          /\ entry.call = "critique"
          /\ entry.kind = "invalid_json"
          /\ session.tasks[entry.task].phase = "CRITIQUED"

\* C29: whenever the critique returns, be it from an answer that parses or
\* from the fallback for an answer that does not, run_phase_c calls the
\* council exactly when the answer recommends one or the task's topic holds
\* one of the domain's multi_school_topics.
C29_CouncilIffSignalOrMarker ==
    (fn = "run_phase_c" /\ returned) =>
        LET task == input.session.tasks[1]
            domain == resolve_domain(input.session)
            signal == input.response # Malformed /\ input.response.recommended_council
            marker == domain # None /\ should_trigger_council(domain, task.topic)
        IN  critique(task.topic, domain, input.response) # Raised =>
                (output.council_called <=> (signal \/ marker))

\* C30: without --auto, phase D starts on a task only after the prompt of
\* checkpoint 1 was answered for it since its phase C, and phase E only
\* after the prompt of checkpoint 2 was answered since its phase D, in
\* whichever process of the session these ran.
C30_CheckpointsBeforeNextPhase ==
    [][ \A entry \in opLog' \ opLog :
            /\ entry[2] = "D" => "checkpoint1" \in decided
            /\ entry[2] = "E" => "checkpoint2" \in decided ]_vars

\* C31: when the synthesis of a task is called, every text typed at a
\* checkpoint of that task, in this process or in an earlier one, is in the
\* list of challenges the synthesis is given.
C31_ChallengesReachSynthesis ==
    [][ (\E entry \in opLog' \ opLog : entry[2] = "E") =>
            challengeLog.supplied \subseteq Range(challengeLog'.passed) ]_vars

\* C32: the result of every task the record has as SYNTHESIZED is in
\* findings.md exactly once, whatever processes the session went through.
C32_FindingAppendedOnce ==
    \A i \in 1..Len(disk.tasks) :
        load_session(disk).tasks[i].phase = "SYNTHESIZED" =>
            Cardinality({k \in 1..Len(findingsLog) : findingsLog[k] = disk.tasks[i].id}) = 1


\* C37: in every persisted session record the tasks are done in list order,
\* one at a time: every task that comes after a task that is not SYNTHESIZED
\* is PENDING (so all tasks before the first task that is not SYNTHESIZED
\* are SYNTHESIZED and all tasks after it are PENDING).
C37_TasksInListOrder ==
    \A i, k \in 1..Len(disk.tasks) :
        (i < k /\ load_session(disk).tasks[i].phase # "SYNTHESIZED")
            => load_session(disk).tasks[k].phase = "PENDING"

\* The record has the first task SYNTHESIZED and the second one under way.
C37_Witness ==
    /\ Len(disk.tasks) = 2
    /\ load_session(disk).tasks[1].phase = "SYNTHESIZED"
    /\ load_session(disk).tasks[2].phase = "VERIFIED"
    /\ Len(findingsLog) = 1

C39_VerifyKeepsEveryFinding ==
    (fn = "verify" /\ returned) =>
        /\ Len(output) = Len(input)
        /\ \A f \in VerifierFindings :
              Cardinality({i \in 1..Len(output) : output[i].finding = f})
                  = Cardinality({i \in 1..Len(input) : input[i] = f})

\* verify has returned for four findings, a finding about question B between
\* findings about question A, the last of them given twice: the answer has
\* them group by group, in another order than the input.
C39_Witness ==
    /\ fn = "verify" /\ returned
    /\ Len(input) = 4
    /\ input[1].question = "A" /\ input[2].question = "B"
    /\ input[3] = input[4] /\ input[3].question = "A"
    /\ output[2].finding = input[3]
    /\ output[4].finding = input[2]

\* C40: _sort_questions loses and duplicates no question: the list it
\* returns is a permutation of the list it was given (the questions that
\* deduplication left), whatever the dependencies and the ids.
C40_SortIsPermutation ==
    (fn = "plan" /\ returned) =>
        LET questions == deduplicate_questions(input)
        IN  /\ Len(output.plan) = Len(questions)
            /\ \A i \in 1..Len(questions) :
                  Cardinality({k \in 1..Len(output.plan) : output.plan[k] = questions[i]})
                      = Cardinality({k \in 1..Len(questions) : questions[k] = questions[i]})

====
